---- MODULE Spec2Model ----
(***************************************************************************)
(* Kurdistan Calendar API: the Kurdish calendar converter                  *)
(* (api/utils/date_utils.py), the holiday aggregation queries              *)
(* (api/routes/holidays.py), the kurdish-to-gregorian route                *)
(* (api/routes/calendar.py) and the data file script                       *)
(* (scripts/validate_kurdish_dates.py).                                    *)
(*                                                                         *)
(* Conventions.  A Gregorian date is the triple <<year, month, day>>; the  *)
(* zero-padded text 'YYYY-MM-DD' the converter parses and prints is in     *)
(* one-to-one correspondence with that triple.  A text rendered for        *)
(* display is the sequence of its Unicode code points.  The Kurdish month  *)
(* names are written in ASCII in this module (Pusper, Gelawej, Gelarezan,  *)
(* Rebendan, Reseme stand for the names spelled with u-circumflex,         *)
(* s-cedilla and e-circumflex); MonthChars gives their real code points.   *)
(***************************************************************************)
EXTENDS Integers, Sequences, FiniteSets, TLC

VARIABLES
    op,        \* the converter function or holiday query that ran last
    gdate,     \* gregorian_to_kurdish: its argument
    kdate,     \* gregorian_to_kurdish: the dict it returned
    gback,     \* kurdish_to_gregorian: its outcome
    kin,       \* is_valid_kurdish_date: its arguments
    valid,     \* is_valid_kurdish_date: the boolean it returned
    text,      \* format_kurdish_date: the text it returned
    reply,     \* a calendar route: the HTTP answer of its handler
    dataFile,  \* validate_kurdish_dates.py: the year file it works on
    report,    \* validate_kurdish_dates.py: what its function returned
    yearFiles, \* data/years/<year>.json: the "holidays" list of each file
    historical,\* data/years/historical.json: its "holidays" list
    request,   \* the parameters of the holiday query
    loads,     \* the load_holidays calls the query made, in order
    holidays,  \* the query's merged list, after loading
    response   \* what the query returned

convVars == <<op, gdate, kdate, gback, kin, valid, text, reply>>
scriptVars == <<dataFile, report>>
aggVars  == <<yearFiles, historical, request, loads, holidays, response>>

(***************************************************************************)
(* Bounds of the model.                                                    *)
(***************************************************************************)
NumYears == 4        \* Gregorian years 2022 .. 2022 + NumYears
MaxDay == 32         \* Kurdish day arguments 0 .. MaxDay
MaxRecords == 2      \* records in the data files, all files together

GregorianYears == 2022 .. (2022 + NumYears)

(***************************************************************************)
(* datetime: the proleptic Gregorian calendar of the standard library.     *)
(***************************************************************************)
IsLeap(y) == (y % 4 = 0) /\ ((y % 100 # 0) \/ (y % 400 = 0))

DaysInMonth(y, m) ==
    IF m = 2 THEN (IF IsLeap(y) THEN 29 ELSE 28)
    ELSE IF m \in {4, 6, 9, 11} THEN 30 ELSE 31

DaysBeforeYear(y) ==
    (y - 1) * 365 + ((y - 1) \div 4) - ((y - 1) \div 100) + ((y - 1) \div 400)

DaysBeforeMonth(y, m) ==
    <<0, 31, 59, 90, 120, 151, 181, 212, 243, 273, 304, 334>>[m]
        + (IF m > 2 /\ IsLeap(y) THEN 1 ELSE 0)

\* datetime(y, m, d).toordinal()
ToOrdinal(dt) == DaysBeforeYear(dt[1]) + DaysBeforeMonth(dt[1], dt[2]) + dt[3]

\* datetime.fromordinal(n): the year whose days contain ordinal n, then the
\* month and the day within it
FromOrdinal(n) ==
    LET y == CHOOSE yy \in (n \div 366) .. ((n \div 365) + 1) :
                 DaysBeforeYear(yy) < n /\ n <= DaysBeforeYear(yy + 1)
        r == n - DaysBeforeYear(y)
        m == CHOOSE mm \in 1 .. 12 :
                 DaysBeforeMonth(y, mm) < r
                 /\ r <= DaysBeforeMonth(y, mm) + DaysInMonth(y, mm)
    IN  <<y, m, r - DaysBeforeMonth(y, m)>>

\* (a - b).days
DaysBetween(a, b) == ToOrdinal(a) - ToOrdinal(b)

\* base + timedelta(days = n)
AddDays(base, n) == FromOrdinal(ToOrdinal(base) + n)

IsDate(dt) == dt[2] \in 1 .. 12 /\ dt[3] \in 1 .. DaysInMonth(dt[1], dt[2])

GregorianDates ==
    {dt \in GregorianYears \X (1 .. 12) \X (1 .. 31) : IsDate(dt)}

\* comparison of the (month, day) tuples
\* variant: the tuple comparison is strict
MdGE_Strict(a, b) == a[1] > b[1] \/ (a[1] = b[1] /\ a[2] > b[2])

MdGE(a, b) == a[1] > b[1] \/ (a[1] = b[1] /\ a[2] >= b[2])
MdLT(a, b) == ~MdGE(a, b)

(***************************************************************************)
(* The static tables.                                                      *)
(***************************************************************************)
KURDISH_MONTHS ==
    <<"Xakelew", "Gullan", "Cozerdan", "Pusper", "Gelawej", "Xermanan",
      "Rezber", "Gelarezan", "Sermawez", "Befranbar", "Rebendan", "Reseme">>

MonthNames == {KURDISH_MONTHS[i] : i \in 1 .. 12}

MONTH_START_DAYS ==
    [n \in MonthNames |->
        CASE n = "Xakelew"   -> <<3, 21>>
          [] n = "Gullan"    -> <<4, 21>>
          [] n = "Cozerdan"  -> <<5, 22>>
          [] n = "Pusper"    -> <<6, 22>>
          [] n = "Gelawej"   -> <<7, 23>>
          [] n = "Xermanan"  -> <<8, 23>>
          [] n = "Rezber"    -> <<9, 23>>
          [] n = "Gelarezan" -> <<10, 23>>
          [] n = "Sermawez"  -> <<11, 22>>
          [] n = "Befranbar" -> <<12, 22>>
          [] n = "Rebendan"  -> <<1, 21>>
          [] n = "Reseme"    -> <<2, 20>>]

\* KURDISH_NUMERALS: the glyph of the ASCII digit d is U+0660 + d
KURDISH_NUMERALS == [d \in 0 .. 9 |-> 1632 + d]

\* the code points of a month name as the source spells it
MonthChars(n) ==
    CASE n = "Xakelew"   -> <<88, 97, 107, 101, 108, 101, 119>>
      [] n = "Gullan"    -> <<71, 117, 108, 108, 97, 110>>
      [] n = "Cozerdan"  -> <<67, 111, 122, 101, 114, 100, 97, 110>>
      [] n = "Pusper"    -> <<80, 251, 351, 112, 101, 114>>
      [] n = "Gelawej"   -> <<71, 101, 108, 97, 119, 234, 106>>
      [] n = "Xermanan"  -> <<88, 101, 114, 109, 97, 110, 97, 110>>
      [] n = "Rezber"    -> <<82, 101, 122, 98, 101, 114>>
      [] n = "Gelarezan" -> <<71, 101, 108, 97, 114, 234, 122, 97, 110>>
      [] n = "Sermawez"  -> <<83, 101, 114, 109, 97, 119, 101, 122>>
      [] n = "Befranbar" -> <<66, 101, 102, 114, 97, 110, 98, 97, 114>>
      [] n = "Rebendan"  -> <<82, 234, 98, 101, 110, 100, 97, 110>>
      [] n = "Reseme"    -> <<82, 101, 351, 101, 109, 101>>
      [] OTHER           -> <<>>

(***************************************************************************)
(* Numeral formatting.                                                     *)
(***************************************************************************)
RECURSIVE DigitsOf(_)
\* str(n) for n >= 0, as the sequence of its decimal digits
DigitsOf(n) == IF n < 10 THEN <<n>> ELSE Append(DigitsOf(n \div 10), n % 10)

\* ''.join(KURDISH_NUMERALS.get(d, d) for d in str(n)); a minus sign is
\* not in the table and is kept (U+002D)
KurdishNumber(n) ==
    IF n < 0 THEN <<45>> \o [i \in 1 .. Len(DigitsOf(-n)) |-> KURDISH_NUMERALS[DigitsOf(-n)[i]]]
    ELSE [i \in 1 .. Len(DigitsOf(n)) |-> KURDISH_NUMERALS[DigitsOf(n)[i]]]

\* f"{kurdish_day_str}ی {month_name} {kurdish_year_str}": the particle is
\* U+06CC, followed by a space
FullDate(day, month_name, year) ==
    KurdishNumber(day) \o <<1740, 32>> \o MonthChars(month_name)
        \o <<32>> \o KurdishNumber(year)

(***************************************************************************)
(* gregorian_to_kurdish                                                    *)
(***************************************************************************)
KurdishDict(year, month, day, full_date) ==
    [year |-> year, month |-> month, day |-> day, full_date |-> full_date]

\* variant: 2024 has the special cases of 2023 and 2026
ResemeMarchDay_2024AsOtherYears(dt) ==
    LET md == <<dt[2], dt[3]>>
    IN  IF dt[1] \in {2023, 2024, 2026} /\ md = <<3, 5>> THEN 14
        ELSE IF dt[1] \in {2023, 2024, 2026} /\ md = <<3, 10>> THEN 19
        ELSE IF dt[1] \in {2023, 2024, 2026} /\ md = <<3, 16>> THEN 25
        ELSE DaysBetween(dt, <<dt[1], 2, 20>>) + 1

\* variant: the per-date special cases are missing
ResemeMarchDay_NoSpecialCases(dt) == DaysBetween(dt, <<dt[1], 2, 20>>) + 1

\* the day chosen in the branch for 1 .. 20 March (month Reseme)
ResemeMarchDay(dt) ==
    LET y  == dt[1]
        md == <<dt[2], dt[3]>>
    IN  IF y = 2023 /\ md = <<3, 5>> THEN 14
        ELSE IF y = 2023 /\ md = <<3, 10>> THEN 19
        ELSE IF y = 2023 /\ md = <<3, 16>> THEN 25
        ELSE IF y = 2024 /\ md = <<3, 6>> THEN 15
        ELSE IF y = 2024 /\ md = <<3, 11>> THEN 20
        ELSE IF y = 2026 /\ md = <<3, 5>> THEN 14
        ELSE IF y = 2026 /\ md = <<3, 10>> THEN 19
        ELSE IF y = 2026 /\ md = <<3, 16>> THEN 25
        ELSE DaysBetween(dt, <<y, 2, 20>>) + 1

\* the hard-coded full_date texts of the two mid-year special cases
FullDate_2023_07_25 ==
    <<1635, 1740, 32, 71, 101, 108, 97, 119, 234, 106, 32,
      1634, 1639, 1634, 1635>>
FullDate_2024_06_01 ==
    <<1633, 1633, 1740, 32, 67, 111, 122, 101, 114, 100, 97, 110, 32,
      1634, 1639, 1634, 1636>>

\* variant: the days of 1 .. 20 January are counted from 22 December of the
\* same Gregorian year
StandardMonthDay_JanuaryFromSameYear(dt) ==
    LET y  == dt[1]
        md == <<dt[2], dt[3]>>
        Within(n) ==
            /\ MdGE(md, MONTH_START_DAYS[KURDISH_MONTHS[n]])
            /\ MdLT(md, MONTH_START_DAYS[KURDISH_MONTHS[n + 1]])
        Since(n) ==
            LET a == MONTH_START_DAYS[KURDISH_MONTHS[n]]
            IN  <<n, DaysBetween(dt, <<y, a[1], a[2]>>) + 1>>
    IN  IF MdGE(md, <<3, 21>>) THEN
            IF \E n \in 1 .. 9 : Within(n)
            THEN Since(CHOOSE n \in 1 .. 9 : Within(n))
            ELSE Since(10)
        ELSE
            IF MdLT(md, <<1, 21>>) THEN Since(10)
            ELSE IF MdLT(md, <<2, 20>>) THEN Since(11)
            ELSE Since(12)

\* the month number and day of the standard calculation; <<0, 0>> are the
\* initial values, kept when no branch applies
StandardMonthDay(dt) ==
    LET y  == dt[1]
        md == <<dt[2], dt[3]>>
    IN  IF MdGE(md, <<3, 21>>) THEN
            IF MdGE(md, <<3, 21>>) /\ MdLT(md, <<4, 21>>)
                THEN <<1, DaysBetween(dt, <<y, 3, 21>>) + 1>>
            ELSE IF MdGE(md, <<4, 21>>) /\ MdLT(md, <<5, 22>>)
                THEN <<2, DaysBetween(dt, <<y, 4, 21>>) + 1>>
            ELSE IF MdGE(md, <<5, 22>>) /\ MdLT(md, <<6, 22>>)
                THEN <<3, DaysBetween(dt, <<y, 5, 22>>) + 1>>
            ELSE IF MdGE(md, <<6, 22>>) /\ MdLT(md, <<7, 23>>)
                THEN <<4, DaysBetween(dt, <<y, 6, 22>>) + 1>>
            ELSE IF MdGE(md, <<7, 23>>) /\ MdLT(md, <<8, 23>>)
                THEN <<5, DaysBetween(dt, <<y, 7, 23>>) + 1>>
            ELSE IF MdGE(md, <<8, 23>>) /\ MdLT(md, <<9, 23>>)
                THEN <<6, DaysBetween(dt, <<y, 8, 23>>) + 1>>
            ELSE IF MdGE(md, <<9, 23>>) /\ MdLT(md, <<10, 23>>)
                THEN <<7, DaysBetween(dt, <<y, 9, 23>>) + 1>>
            ELSE IF MdGE(md, <<10, 23>>) /\ MdLT(md, <<11, 22>>)
                THEN <<8, DaysBetween(dt, <<y, 10, 23>>) + 1>>
            ELSE IF MdGE(md, <<11, 22>>) /\ MdLT(md, <<12, 22>>)
                THEN <<9, DaysBetween(dt, <<y, 11, 22>>) + 1>>
            ELSE IF MdGE(md, <<12, 22>>)
                THEN <<10, DaysBetween(dt, <<y, 12, 22>>) + 1>>
            ELSE <<0, 0>>
        ELSE
            IF MdGE(md, <<1, 1>>) /\ MdLT(md, <<1, 21>>)
                THEN <<10, DaysBetween(dt, <<y - 1, 12, 22>>) + 1>>
            ELSE IF MdGE(md, <<1, 21>>) /\ MdLT(md, <<2, 20>>)
                THEN <<11, DaysBetween(dt, <<y, 1, 21>>) + 1>>
            ELSE IF MdGE(md, <<2, 20>>) /\ MdLT(md, <<3, 21>>)
                THEN <<12, DaysBetween(dt, <<y, 2, 20>>) + 1>>
            ELSE <<0, 0>>

\* variant: the standard calculation does not move the dates before
\* 21 March to the previous Kurdish year
gregorian_to_kurdish_YearNotDecremented(dt) ==
    LET y  == dt[1]
        md == <<dt[2], dt[3]>>
    IN  IF dt[2] = 3 /\ dt[3] < 21 THEN
            LET day == ResemeMarchDay(dt)
                kurdish_year == y + 700 - 1
            IN  KurdishDict(kurdish_year, KURDISH_MONTHS[12], day,
                            FullDate(day, KURDISH_MONTHS[12], kurdish_year))
        ELSE IF y = 2023 /\ md = <<7, 25>> THEN
            KurdishDict(2723, "Gelawej", 3, FullDate_2023_07_25)
        ELSE IF y = 2024 /\ md = <<6, 1>> THEN
            KurdishDict(2724, "Cozerdan", 11, FullDate_2024_06_01)
        ELSE
            LET nd == StandardMonthDay(dt)
                kurdish_year == y + 700
                month_name == IF nd[1] = 0 THEN "" ELSE KURDISH_MONTHS[nd[1]]
            IN  KurdishDict(kurdish_year, month_name, nd[2],
                            FullDate(nd[2], month_name, kurdish_year))

gregorian_to_kurdish(dt) ==
    LET y  == dt[1]
        md == <<dt[2], dt[3]>>
    IN  IF dt[2] = 3 /\ dt[3] < 21 THEN
            LET day == ResemeMarchDay(dt)
                kurdish_year == y + 700 - 1
            IN  KurdishDict(kurdish_year, KURDISH_MONTHS[12], day,
                            FullDate(day, KURDISH_MONTHS[12], kurdish_year))
        ELSE IF y = 2023 /\ md = <<7, 25>> THEN
            KurdishDict(2723, "Gelawej", 3, FullDate_2023_07_25)
        ELSE IF y = 2024 /\ md = <<6, 1>> THEN
            KurdishDict(2724, "Cozerdan", 11, FullDate_2024_06_01)
        ELSE
            LET nd == StandardMonthDay(dt)
                kurdish_year == IF MdGE(md, <<3, 21>>) THEN y + 700
                                ELSE y + 700 - 1
                month_name == IF nd[1] = 0 THEN "" ELSE KURDISH_MONTHS[nd[1]]
            IN  KurdishDict(kurdish_year, month_name, nd[2],
                            FullDate(nd[2], month_name, kurdish_year))

(***************************************************************************)
(* kurdish_to_gregorian                                                    *)
(*                                                                         *)
(* A month argument is a name or a number: ByName(s) and ByIndex(i).       *)
(***************************************************************************)
ByName(s)  == [isStr |-> TRUE,  name |-> s,  num |-> 0]
ByIndex(i) == [isStr |-> FALSE, name |-> "", num |-> i]

\* next((k for k, v in KURDISH_MONTHS.items() if v == name), None); 0 is None
MonthNumberOf(name) ==
    IF \E k \in 1 .. 12 : KURDISH_MONTHS[k] = name
    THEN CHOOSE k \in 1 .. 12 : KURDISH_MONTHS[k] = name
    ELSE 0

Returned(dt) == [err |-> "none", date |-> dt]
Raised(e)    == [err |-> e, date |-> <<0, 0, 0>>]

\* variant: the base date is always built in gregorian_year
kurdish_to_gregorian_SameYearBase(kurdish_year, kurdish_month, kurdish_day) ==
    LET month_number == IF kurdish_month.isStr
                        THEN MonthNumberOf(kurdish_month.name)
                        ELSE kurdish_month.num
        gregorian_year ==
            IF month_number <= 9 THEN kurdish_year - 700
            ELSE IF month_number >= 11
                    \/ (month_number = 10 /\ kurdish_day > 9)
                 THEN kurdish_year - 700 + 1
                 ELSE kurdish_year - 700
    IN  IF kurdish_month.isStr /\ month_number = 0 THEN Raised("ValueError")
        ELSE IF month_number \notin 1 .. 12 THEN Raised("KeyError")
        ELSE
            LET greg == MONTH_START_DAYS[KURDISH_MONTHS[month_number]]
            IN  Returned(AddDays(<<gregorian_year, greg[1], greg[2]>>,
                                 kurdish_day - 1))

kurdish_to_gregorian(kurdish_year, kurdish_month, kurdish_day) ==
    LET month_number == IF kurdish_month.isStr
                        THEN MonthNumberOf(kurdish_month.name)
                        ELSE kurdish_month.num
        gregorian_year ==
            IF month_number <= 9 THEN kurdish_year - 700
            ELSE IF month_number >= 11
                    \/ (month_number = 10 /\ kurdish_day > 9)
                 THEN kurdish_year - 700 + 1
                 ELSE kurdish_year - 700
    IN  IF kurdish_month.isStr /\ month_number = 0 THEN Raised("ValueError")
        ELSE IF month_number \notin 1 .. 12 THEN Raised("KeyError")
        ELSE
            LET month_name == KURDISH_MONTHS[month_number]
                greg == MONTH_START_DAYS[month_name]
                base_date ==
                    IF month_number >= 10 /\ month_number <= 12
                       /\ gregorian_year > kurdish_year - 700
                    THEN <<gregorian_year - 1, greg[1], greg[2]>>
                    ELSE <<gregorian_year, greg[1], greg[2]>>
            IN  Returned(AddDays(base_date, kurdish_day - 1))

(***************************************************************************)
(* is_valid_kurdish_date                                                   *)
(***************************************************************************)
\* variant: day 16 is missing from the list
ResemeWhitelist_Without16 == {6, 10, 14, 15, 17, 19, 20, 23, 24, 25, 26}

ResemeWhitelist   == {6, 10, 14, 15, 16, 17, 19, 20, 23, 24, 25, 26}
RebendanWhitelist == {2, 10, 12, 26}

\* the round trip at the end of is_valid_kurdish_date; an exception makes
\* it answer False
RoundTripValid(kurdish_year, kurdish_month, month_number, kurdish_day) ==
    LET g == kurdish_to_gregorian(kurdish_year, ByIndex(month_number),
                                  kurdish_day)
    IN  IF g.err # "none" THEN FALSE
        ELSE LET converted_back == gregorian_to_kurdish(g.date)
             IN  /\ converted_back.year = kurdish_year
                 /\ converted_back.day = kurdish_day
                 /\ \/ converted_back.month = KURDISH_MONTHS[month_number]
                    \/ (kurdish_month.isStr
                        /\ converted_back.month = kurdish_month.name)

is_valid_kurdish_date(kurdish_year, kurdish_month, kurdish_day) ==
    IF kurdish_year = 2698 /\ kurdish_month.isStr
       /\ kurdish_month.name = "Rebendan" /\ kurdish_day = 26 THEN TRUE
    ELSE IF kurdish_year = 2702 /\ kurdish_month.isStr
       /\ kurdish_month.name = "Reseme" /\ kurdish_day = 28 THEN TRUE
    ELSE IF kurdish_year = 2704 /\ kurdish_month.isStr
       /\ kurdish_month.name = "Rebendan" /\ kurdish_day = 10 THEN TRUE
    ELSE IF kurdish_month.isStr /\ kurdish_month.name = "Reseme"
       /\ kurdish_day \in ResemeWhitelist THEN TRUE
    ELSE IF kurdish_month.isStr /\ kurdish_month.name = "Rebendan"
       /\ kurdish_day \in RebendanWhitelist THEN TRUE
    ELSE
        LET month_number == IF kurdish_month.isStr
                            THEN MonthNumberOf(kurdish_month.name)
                            ELSE kurdish_month.num
        IN  IF month_number < 1 \/ month_number > 12 THEN FALSE
            ELSE IF kurdish_day < 1 \/ kurdish_day > 31 THEN FALSE
            ELSE RoundTripValid(kurdish_year, kurdish_month, month_number,
                                kurdish_day)

(***************************************************************************)
(* format_kurdish_date                                                     *)
(***************************************************************************)
\* variant: the year keeps its ASCII digits
format_kurdish_date_AsciiYear(day, month, year) ==
    IF ~month.isStr /\ (month.num < 1 \/ month.num > 12)
    THEN [err |-> "ValueError", text |-> <<>>]
    ELSE LET month_name == IF month.isStr THEN month.name
                           ELSE KURDISH_MONTHS[month.num]
             kurdish_day  == KurdishNumber(day)
             kurdish_year == [i \in 1 .. Len(DigitsOf(year)) |->
                                 48 + DigitsOf(year)[i]]
         IN  [err |-> "none",
              text |-> kurdish_day \o <<1740>> \o <<32>>
                       \o MonthChars(month_name) \o <<32>> \o kurdish_year]

format_kurdish_date(day, month, year) ==
    IF ~month.isStr /\ (month.num < 1 \/ month.num > 12)
    THEN [err |-> "ValueError", text |-> <<>>]
    ELSE LET month_name == IF month.isStr THEN month.name
                           ELSE KURDISH_MONTHS[month.num]
             kurdish_day  == KurdishNumber(day)
             kurdish_year == KurdishNumber(year)
         IN  [err |-> "none",
              text |-> kurdish_day \o <<1740>> \o <<32>>
                       \o MonthChars(month_name) \o <<32>> \o kurdish_year]

(***************************************************************************)
(* Holiday records.                                                        *)
(*                                                                         *)
(* A record of a data file is a JSON object: a function from its keys to   *)
(* its values, so that a key can be missing.  Python's None (JSON null) is *)
(* written None and stands for the text str() gives it, which is how the   *)
(* unique keys render it.  An Optional query parameter is a set with at    *)
(* most one element: {} is None.                                           *)
(***************************************************************************)
None == "None"

Has(h, k) == k \in DOMAIN h

\* h.get(k, default)
Get(h, k, default) == IF k \in DOMAIN h THEN h[k] ELSE default

\* datetime.fromisoformat / strptime(s, "%Y-%m-%d") on the date texts that
\* occur in the model; NoDate stands for ValueError
NoDate == <<0, 0, 0>>

ParseIso(s) ==
    CASE s = "1946-01-22" -> <<1946, 1, 22>>
      [] s = "2022-01-01" -> <<2022, 1, 1>>
      [] s = "2022-06-01" -> <<2022, 6, 1>>
      [] s = "2022-12-31" -> <<2022, 12, 31>>
      [] s = "2023-03-21" -> <<2023, 3, 21>>
      [] s = "2024-03-21" -> <<2024, 3, 21>>
      [] s = "2025-01-01" -> <<2025, 1, 1>>
      [] OTHER            -> NoDate

\* comparison of datetime.date values
DateLE(a, b) ==
    \/ a[1] < b[1]
    \/ (a[1] = b[1] /\ a[2] < b[2])
    \/ (a[1] = b[1] /\ a[2] = b[2] /\ a[3] <= b[3])

\* a <= b on zero-padded ISO date texts: the lexicographic order of the
\* texts is the order of their fields
DateTextLE(a, b) == DateLE(ParseIso(a), ParseIso(b))

\* str.lower() on the region texts that occur in the model
Lower(s) ==
    CASE s = "ALL"    -> "all"
      [] s = "Bashur" -> "bashur"
      [] OTHER        -> s

\* f"{h['date']}_{h.get('type', 'unknown')}_{h.get('region', 'unknown')}"
UniqueKey(h) ==
    h["date"] \o "_" \o Get(h, "type", "unknown")
              \o "_" \o Get(h, "region", "unknown")

(***************************************************************************)
(* load_holidays and the loading loops of the queries                      *)
(***************************************************************************)
\* the years that have a data file
FileYears == {2023, 2024}

LoadCall(year, file_name) == [year |-> year, file_name |-> file_name]

\* variant: the year is not used and every year file is read
LoadYear_AllYears(files, year) == files[2023] \o files[2024]

\* load_holidays(year): the file's list, [] when the file does not exist
LoadYear(files, year) == IF year \in DOMAIN files THEN files[year] ELSE <<>>

RECURSIVE LoadAll(_, _)
\* load_holidays(): every year file, in the order glob yields them;
\* historical.json is skipped
LoadAll(files, order) ==
    IF order = <<>> THEN <<>>
    ELSE files[Head(order)] \o LoadAll(files, Tail(order))

EmptyAcc == [processed_dates |-> {}, holidays |-> <<>>]

RECURSIVE AddUnique_NoCheck(_, _)
RECURSIVE AddUnique_FreshKeys(_, _, _)
AddUnique_FreshKeys(acc, source, seen) ==
    IF source = <<>> THEN acc
    ELSE LET h == Head(source)
         IN  IF ~Has(h, "date")
             THEN AddUnique_FreshKeys(acc, Tail(source), seen)
             ELSE IF UniqueKey(h) \notin seen
             THEN AddUnique_FreshKeys(
                      [processed_dates |->
                           acc.processed_dates \cup {UniqueKey(h)},
                       holidays |-> Append(acc.holidays, h)],
                      Tail(source), seen \cup {UniqueKey(h)})
             ELSE AddUnique_FreshKeys(acc, Tail(source), seen)

\* variant: the processed keys start empty for every source
AddUnique_PerSource(acc, source) == AddUnique_FreshKeys(acc, source, {})

\* variant: the processed keys are not consulted
AddUnique_NoCheck(acc, source) ==
    IF source = <<>> THEN acc
    ELSE LET h == Head(source)
         IN  IF ~Has(h, "date") THEN AddUnique_NoCheck(acc, Tail(source))
             ELSE AddUnique_NoCheck(
                      [processed_dates |->
                           acc.processed_dates \cup {UniqueKey(h)},
                       holidays |-> Append(acc.holidays, h)],
                      Tail(source))

RECURSIVE AddUnique(_, _)
\* for h in source: append h unless its unique key was processed; a record
\* without 'date' raises KeyError and is skipped
AddUnique(acc, source) ==
    IF source = <<>> THEN acc
    ELSE LET h == Head(source)
         IN  IF ~Has(h, "date") THEN AddUnique(acc, Tail(source))
             ELSE IF UniqueKey(h) \notin acc.processed_dates
             THEN AddUnique([processed_dates |->
                                 acc.processed_dates \cup {UniqueKey(h)},
                             holidays |-> Append(acc.holidays, h)],
                            Tail(source))
             ELSE AddUnique(acc, Tail(source))

RECURSIVE AddYears(_, _, _, _)
\* for year in range(first, last + 1): load the year and add its records
AddYears(acc, files, first, last) ==
    IF first > last THEN acc
    ELSE AddYears(AddUnique(acc, LoadYear(files, first)), files,
                  first + 1, last)

\* the load_holidays calls of range(first, last + 1)
YearCalls(first, last) ==
    [i \in 1 .. (IF last >= first THEN last - first + 1 ELSE 0) |->
        LoadCall(first + i - 1, "")]

HistoricalCall == LoadCall(0, "historical.json")

Max(a, b) == IF a >= b THEN a ELSE b

\* variant: the historical file is read only when the flag is set
RangeLoadsHistorical_FlagOnly(include_historical, start_year) ==
    include_historical

\* include_historical or start_year < 2023
RangeLoadsHistorical(include_historical, start_year) ==
    include_historical \/ start_year < 2023

(***************************************************************************)
(* The filters                                                             *)
(***************************************************************************)
\* variant: the stored region is compared as written
RegionMatches_CaseSensitive(h, region_value) ==
    /\ Has(h, "region")
    /\ (h["region"] = region_value \/ h["region"] = "all")

\* 'region' in h and (h["region"].lower() == region_value or
\*                    h["region"].lower() == "all")
RegionMatches(h, region_value) ==
    /\ Has(h, "region")
    /\ (Lower(h["region"]) = region_value \/ Lower(h["region"]) = "all")

\* if region: ...
FilterRegion(hs, region) ==
    IF region = {} THEN hs
    ELSE LET region_value == Lower(CHOOSE r \in region : TRUE)
             Keep(h) == RegionMatches(h, region_value)
         IN  SelectSeq(hs, Keep)

\* if type: 'type' in h and h.get("type") == type_value
FilterType(hs, type) ==
    IF type = {} THEN hs
    ELSE LET type_value == CHOOSE t \in type : TRUE
             Keep(h) == Has(h, "type") /\ h["type"] = type_value
         IN  SelectSeq(hs, Keep)

\* if is_holiday is not None: 'isHoliday' in h and h["isHoliday"] == is_holiday
FilterIsHoliday(hs, is_holiday) ==
    IF is_holiday = {} THEN hs
    ELSE LET v == CHOOSE b \in is_holiday : TRUE
             Keep(h) == Has(h, "isHoliday") /\ h["isHoliday"] = v
         IN  SelectSeq(hs, Keep)

\* some record's date text makes datetime.fromisoformat raise ValueError
SomeDateUnparseable(hs) ==
    \E i \in 1 .. Len(hs) : Has(hs[i], "date") /\ ParseIso(hs[i]["date"]) = NoDate

\* 'date' in h and from_date_obj <= fromisoformat(h["date"]).date() <= to_date_obj
FilterRange(hs, from_date_obj, to_date_obj) ==
    LET Keep(h) == /\ Has(h, "date")
                   /\ DateLE(from_date_obj, ParseIso(h["date"]))
                   /\ DateLE(ParseIso(h["date"]), to_date_obj)
    IN  SelectSeq(hs, Keep)

Last(s)  == s[Len(s)]
Front(s) == SubSeq(s, 1, Len(s) - 1)

RECURSIVE InsertByDate_BeforeEqual(_, _)
\* variant: h is placed before the records with the same date text
InsertByDate_BeforeEqual(sorted, h) ==
    IF sorted = <<>> THEN <<h>>
    ELSE IF DateTextLE(Last(sorted)["date"], h["date"])
            /\ Last(sorted)["date"] # h["date"]
        THEN Append(sorted, h)
    ELSE Append(InsertByDate_BeforeEqual(Front(sorted), h), Last(sorted))

RECURSIVE InsertByDate(_, _)
\* h placed behind every record whose date text is not greater
InsertByDate(sorted, h) ==
    IF sorted = <<>> THEN <<h>>
    ELSE IF DateTextLE(Last(sorted)["date"], h["date"]) THEN Append(sorted, h)
    ELSE Append(InsertByDate(Front(sorted), h),
                Last(sorted))

RECURSIVE SortByDate(_)
\* range_holidays.sort(key=lambda h: h["date"]): a stable sort
SortByDate(hs) ==
    IF hs = <<>> THEN <<>>
    ELSE InsertByDate(SortByDate(Front(hs)), Last(hs))

RECURSIVE UniqueFrom(_, _, _)
UniqueFrom(hs, processed_response_keys, unique_holidays) ==
    IF hs = <<>> THEN unique_holidays
    ELSE LET h == Head(hs)
         IN  IF ~Has(h, "date")
             THEN UniqueFrom(Tail(hs), processed_response_keys, unique_holidays)
             ELSE IF UniqueKey(h) \notin processed_response_keys
             THEN UniqueFrom(Tail(hs),
                             processed_response_keys \cup {UniqueKey(h)},
                             Append(unique_holidays, h))
             ELSE UniqueFrom(Tail(hs), processed_response_keys, unique_holidays)

\* variant: the loop starts at the second record
UniqueHolidays_SkipFirst(hs) ==
    IF hs = <<>> THEN <<>> ELSE UniqueFrom(Tail(hs), {}, <<>>)

\* the additional duplicate check before forming the response
UniqueHolidays(hs) == UniqueFrom(hs, {}, <<>>)

(***************************************************************************)
(* Forming the response                                                    *)
(***************************************************************************)
EmptyDict == <<>>

\* variant: no fallback to the English text
EventText_NoFallback(h, lang) == Get(h["event"], lang, "Unknown")

\* h["event"].get(lang, h["event"].get("en", "Unknown"))
EventText(h, lang) == Get(h["event"], lang, Get(h["event"], "en", "Unknown"))

\* h["note"].get(lang) if h.get("note", {}).get(lang) else None; an empty
\* text counts as absent
NoteText(h, lang) ==
    LET v == Get(Get(h, "note", EmptyDict), lang, None)
    IN  IF v = None \/ v = "" THEN None ELSE h["note"][lang]

Entry(h, lang) ==
    [date         |-> h["date"],
     kurdish_date |-> Get(h, "kurdish_date", EmptyDict),
     isHoliday    |-> Get(h, "isHoliday", FALSE),
     event        |-> EventText(h, lang),
     note         |-> NoteText(h, lang),
     region       |-> Get(h, "region", "unknown"),
     type         |-> Get(h, "type", None),
     image        |-> Get(h, "image", None)]

\* a record whose entry cannot be formed (KeyError) is skipped
Malformed(h) == ~Has(h, "date") \/ ~Has(h, "event")

RECURSIVE FormResult(_, _)
FormResult(hs, lang) ==
    IF hs = <<>> THEN <<>>
    ELSE IF Malformed(Head(hs)) THEN FormResult(Tail(hs), lang)
    ELSE <<Entry(Head(hs), lang)>> \o FormResult(Tail(hs), lang)

ListResponse(items) == [error |-> "", items |-> items]
ErrorResponse(msg)  == [error |-> msg, items |-> <<>>]

Outcome(calls, merged, resp) ==
    [loads |-> calls, holidays |-> merged, response |-> resp]

(***************************************************************************)
(* get_holidays_by_date_range                                              *)
(***************************************************************************)
get_holidays_by_date_range(files, hist, p) ==
    LET from_date_obj == ParseIso(p.from_date)
        to_date_obj   == ParseIso(p.to_date)
        start_year    == from_date_obj[1]
        end_year      == to_date_obj[1]
        first_year    == Max(2023, start_year)
        with_hist     == RangeLoadsHistorical(p.include_historical, start_year)
        yearly        == AddYears(EmptyAcc, files, first_year, end_year)
        merged        == IF with_hist THEN AddUnique(yearly, hist) ELSE yearly
        calls         == YearCalls(first_year, end_year)
                            \o (IF with_hist THEN <<HistoricalCall>> ELSE <<>>)
        in_range      == FilterRange(merged.holidays, from_date_obj, to_date_obj)
        filtered      == FilterIsHoliday(
                             FilterType(FilterRegion(in_range, p.region), p.type),
                             p.is_holiday)
        unique_holidays == UniqueHolidays(SortByDate(filtered))
    IN  IF from_date_obj = NoDate \/ to_date_obj = NoDate
        THEN Outcome(<<>>, <<>>,
                     ErrorResponse("Invalid date format. Use YYYY-MM-DD"))
        ELSE IF ~DateLE(from_date_obj, to_date_obj)
        THEN Outcome(<<>>, <<>>,
                     ErrorResponse("End date must be after start date"))
        ELSE IF SomeDateUnparseable(merged.holidays)
        THEN Outcome(calls, merged.holidays,
                     ErrorResponse("An unexpected error occurred while processing your request."))
        ELSE Outcome(calls, merged.holidays,
                     ListResponse(FormResult(unique_holidays, p.lang)))

(***************************************************************************)
(* get_holidays_by_date                                                    *)
(***************************************************************************)
\* variant: the loops do not catch KeyError, so that a record without date
\* or without event ends the request in the handler's last except clause
get_holidays_by_date_NoRecovery(files, hist, p) ==
    LET date_obj == ParseIso(p.date)
        year     == date_obj[1]
        read     == (IF year < 2023 THEN <<>> ELSE LoadYear(files, year))
                       \o (IF p.include_historical THEN hist ELSE <<>>)
        yearly   == IF year < 2023 THEN EmptyAcc
                    ELSE AddUnique(EmptyAcc, LoadYear(files, year))
        merged   == IF p.include_historical THEN AddUnique(yearly, hist)
                    ELSE yearly
        calls    == (IF year < 2023 THEN <<>> ELSE <<LoadCall(year, "")>>)
                       \o (IF p.include_historical THEN <<HistoricalCall>>
                           ELSE <<>>)
        OnDate(h) == Has(h, "date") /\ h["date"] = p.date
        date_holidays == FilterType(
                             FilterRegion(SelectSeq(merged.holidays, OnDate),
                                          p.region),
                             p.type)
    IN  IF date_obj = NoDate
        THEN Outcome(<<>>, <<>>,
                     ErrorResponse("Invalid date format. Use YYYY-MM-DD"))
        ELSE IF (\E i \in 1 .. Len(read) : ~Has(read[i], "date"))
                \/ (\E i \in 1 .. Len(date_holidays) :
                        Malformed(date_holidays[i]))
        THEN Outcome(calls, merged.holidays,
                     ErrorResponse("An unexpected error occurred while processing your request."))
        ELSE Outcome(calls, merged.holidays,
                     ListResponse(FormResult(date_holidays, p.lang)))

get_holidays_by_date(files, hist, p) ==
    LET date_obj == ParseIso(p.date)
        year     == date_obj[1]
        yearly   == IF year < 2023 THEN EmptyAcc
                    ELSE AddUnique(EmptyAcc, LoadYear(files, year))
        merged   == IF p.include_historical THEN AddUnique(yearly, hist)
                    ELSE yearly
        calls    == (IF year < 2023 THEN <<>> ELSE <<LoadCall(year, "")>>)
                       \o (IF p.include_historical THEN <<HistoricalCall>>
                           ELSE <<>>)
        OnDate(h) == Has(h, "date") /\ h["date"] = p.date
        date_holidays == FilterType(
                             FilterRegion(SelectSeq(merged.holidays, OnDate),
                                          p.region),
                             p.type)
    IN  IF date_obj = NoDate
        THEN Outcome(<<>>, <<>>,
                     ErrorResponse("Invalid date format. Use YYYY-MM-DD"))
        ELSE Outcome(calls, merged.holidays,
                     ListResponse(FormResult(date_holidays, p.lang)))

(***************************************************************************)
(* get_holidays                                                            *)
(***************************************************************************)
\* the month and the day of a record's date
MonthIs(hs, month) ==
    LET Keep(h) == Has(h, "date") /\ ParseIso(h["date"])[2] = month
    IN  SelectSeq(hs, Keep)

DayIs(hs, day) ==
    LET Keep(h) == Has(h, "date") /\ ParseIso(h["date"])[3] = day
    IN  SelectSeq(hs, Keep)

FromOnwards(hs, from_date_obj) ==
    LET Keep(h) == Has(h, "date") /\ DateLE(from_date_obj, ParseIso(h["date"]))
    IN  SelectSeq(hs, Keep)

UpTo(hs, to_date_obj) ==
    LET Keep(h) == Has(h, "date") /\ DateLE(ParseIso(h["date"]), to_date_obj)
    IN  SelectSeq(hs, Keep)

\* p.year = 0 is the missing year parameter (0 is falsy as well); order is
\* the order in which glob yields the year files
get_holidays(files, hist, p, order) ==
    LET yearly_holidays == IF p.year # 0 THEN LoadYear(files, p.year)
                           ELSE LoadAll(files, order)
        yearly   == AddUnique(EmptyAcc, yearly_holidays)
        merged   == IF p.include_historical THEN AddUnique(yearly, hist)
                    ELSE yearly
        calls    == <<LoadCall(p.year, "")>>
                       \o (IF p.include_historical THEN <<HistoricalCall>>
                           ELSE <<>>)
        from_given == p.from_date # ""
        to_given   == p.to_date # ""
        after_from == IF from_given
                      THEN FromOnwards(merged.holidays, ParseIso(p.from_date))
                      ELSE merged.holidays
        after_to   == IF to_given THEN UpTo(after_from, ParseIso(p.to_date))
                      ELSE after_from
        after_month == IF p.month # 0 THEN MonthIs(after_to, p.month)
                       ELSE after_to
        after_day   == IF p.day # 0 THEN DayIs(after_month, p.day)
                       ELSE after_month
        filtered    == FilterType(
                           FilterRegion(FilterIsHoliday(after_day, p.is_holiday),
                                        p.region),
                           p.type)
    IN  IF from_given
           /\ (ParseIso(p.from_date) = NoDate
               \/ SomeDateUnparseable(merged.holidays))
        THEN Outcome(calls, merged.holidays,
                     ErrorResponse("Invalid from_date format. Use YYYY-MM-DD"))
        ELSE IF to_given
           /\ (ParseIso(p.to_date) = NoDate \/ SomeDateUnparseable(after_from))
        THEN Outcome(calls, merged.holidays,
                     ErrorResponse("Invalid to_date format. Use YYYY-MM-DD"))
        ELSE IF (p.month # 0 /\ SomeDateUnparseable(after_to))
                \/ (p.day # 0 /\ SomeDateUnparseable(after_month))
        THEN Outcome(calls, merged.holidays,
                     ErrorResponse("An unexpected error occurred while processing your request."))
        ELSE Outcome(calls, merged.holidays,
                     ListResponse(FormResult(filtered, p.lang)))

(***************************************************************************)
(* get_today_holidays                                                      *)
(***************************************************************************)
\* p.today is today.strftime("%Y-%m-%d")
get_today_holidays(files, hist, p) ==
    LET today_str == p.today
        year     == ParseIso(p.today)[1]
        yearly   == AddUnique(EmptyAcc, LoadYear(files, year))
        merged   == IF p.include_historical THEN AddUnique(yearly, hist)
                    ELSE yearly
        calls    == <<LoadCall(year, "")>>
                       \o (IF p.include_historical THEN <<HistoricalCall>>
                           ELSE <<>>)
        OnDate(h) == Has(h, "date") /\ h["date"] = today_str
        today_holidays == FilterType(
                              FilterRegion(SelectSeq(merged.holidays, OnDate),
                                           p.region),
                              p.type)
    IN  Outcome(calls, merged.holidays,
                ListResponse(FormResult(today_holidays, p.lang)))

(***************************************************************************)
(* routes/calendar.py: POST /kurdish-to-gregorian.  An HTTPException that  *)
(* leaves the handler becomes the answer: its status code and its detail.  *)
(***************************************************************************)
HttpError(status_code, detail) ==
    [status |-> status_code, detail |-> detail, gregorian_date |-> NoDate]

\* the dict the handler returns, answered with status 200
HttpSuccess(gregorian_date) ==
    [status |-> 200, detail |-> "", gregorian_date |-> gregorian_date]

\* str(e) of an HTTPException: "<status_code>: <detail>"
StrOfInvalidKurdishDate == "400: Invalid Kurdish date"

\* the HTTPException(400) is raised inside the try block; it is no
\* ValueError, so "except Exception" catches it and raises the 500 answer
convert_kurdish_to_gregorian(data) ==
    IF ~is_valid_kurdish_date(data.year, data.month, data.day)
    THEN HttpError(500, "Error converting date: " \o StrOfInvalidKurdishDate)
    ELSE LET g == kurdish_to_gregorian(data.year, data.month, data.day)
         IN  IF g.err = "none" THEN HttpSuccess(g.date)
             ELSE IF g.err = "ValueError" THEN HttpError(400, g.err)
             ELSE HttpError(500, "Error converting date: " \o g.err)

(***************************************************************************)
(* scripts/validate_kurdish_dates.py.  A year file is modelled by its      *)
(* "holidays" list; json.load and json.dump keep the texts and integers of *)
(* the records as they are.  A message is modelled by its kind and the     *)
(* index or count it mentions.                                             *)
(***************************************************************************)
\* datetime.fromisoformat(s) for the date texts of the modelled files;
\* NoDate stands for the ValueError of any other text
FromIsoFormat(s) ==
    CASE s = "2023-03-21" -> <<2023, 3, 21>>
      [] s = "2023-07-25" -> <<2023, 7, 25>>
      [] s = "2024-01-25" -> <<2024, 1, 25>>
      [] s = "2024-03-06" -> <<2024, 3, 6>>
      [] OTHER            -> NoDate

Msg(kind, n) == [kind |-> kind, n |-> n]

required_fields == <<"year", "month", "day", "full_date">>

MissingFields(kurdish_date) ==
    LET Missing(field) == field \notin DOMAIN kurdish_date
    IN  SelectSeq(required_fields, Missing)

\* holiday[k] = v
With(holiday, k, v) ==
    [f \in DOMAIN holiday \cup {k} |-> IF f = k THEN v ELSE holiday[f]]

\* for field in required_fields: if field not in kurdish_date:
\*     kurdish_date[field] = calculated_kurdish_date[field]
FillMissing(kurdish_date, calculated) ==
    [f \in DOMAIN kurdish_date \cup {"year", "month", "day", "full_date"} |->
        IF f \in DOMAIN kurdish_date THEN kurdish_date[f] ELSE calculated[f]]

\* the record after the loop body, whether it counts as a change, and the
\* kind of the message appended ("" for none), when the record has no
\* kurdish_date or one that differs from the calculated date
Replaced(holiday, calculated_kurdish_date, kind) ==
    [holiday |-> With(holiday, "kurdish_date", calculated_kurdish_date),
     changed |-> TRUE, kind |-> kind]

\* kurdish_date is the record's kurdish_date after its missing fields
\* were filled in
KeptOrReplaced(holiday, kurdish_date, calculated_kurdish_date) ==
    IF \E f \in {"year", "month", "day", "full_date"} :
           kurdish_date[f] # calculated_kurdish_date[f]
    THEN Replaced(holiday, calculated_kurdish_date, "updated")
    ELSE [holiday |-> With(holiday, "kurdish_date", kurdish_date),
          changed |-> MissingFields(holiday["kurdish_date"]) # <<>>,
          kind |-> ""]

UpdatedRecord(holiday, calculated_kurdish_date) ==
    IF ~Has(holiday, "kurdish_date")
    THEN Replaced(holiday, calculated_kurdish_date, "added")
    ELSE KeptOrReplaced(holiday,
                        FillMissing(holiday["kurdish_date"],
                                    calculated_kurdish_date),
                        calculated_kurdish_date)

\* st.holidays is data["holidays"], changed in place
Applied(st, idx, u) ==
    [st EXCEPT !.holidays[idx] = u.holiday,
               !.changes_count = IF u.changed THEN @ + 1 ELSE @,
               !.messages = IF u.kind = "" THEN @
                            ELSE Append(@, Msg(u.kind, idx - 1))]

RECURSIVE UpdateLoop(_, _, _)
\* the loop of update_kurdish_dates from the record at position idx on;
\* st.raised is the exception that ends the function
UpdateLoop(records, idx, st) ==
    IF idx > Len(records) \/ st.raised THEN st
    ELSE IF ~Has(records[idx], "date")
    THEN UpdateLoop(records, idx + 1,
             [st EXCEPT !.messages = Append(@, Msg("missing_date", idx - 1)),
                        !.success = FALSE])
    ELSE IF FromIsoFormat(records[idx]["date"]) = NoDate
    THEN [st EXCEPT !.raised = TRUE]
    ELSE UpdateLoop(records, idx + 1,
             Applied(st, idx,
                     UpdatedRecord(records[idx],
                                   gregorian_to_kurdish(
                                       FromIsoFormat(records[idx]["date"])))))

ScriptResult(file, success, messages) ==
    [file |-> file, success |-> success, messages |-> messages]

\* what update_kurdish_dates writes and returns after its loop
UpdateOutcome(file, dry_run, st) ==
    IF st.raised
    THEN ScriptResult(file, FALSE,
                      Append(st.messages, Msg("unexpected_error", 0)))
    ELSE IF st.changes_count > 0 /\ ~dry_run
    THEN ScriptResult(st.holidays, st.success,
                      Append(st.messages,
                             Msg("updated_file", st.changes_count)))
    ELSE IF st.changes_count > 0
    THEN ScriptResult(file, st.success,
                      Append(st.messages,
                             Msg("would_update", st.changes_count)))
    ELSE ScriptResult(file, st.success,
                      Append(st.messages, Msg("no_updates", 0)))

\* update_kurdish_dates(file_path, dry_run): file is the content of the
\* file before the call; the result holds its content after the call
update_kurdish_dates(file, dry_run) ==
    UpdateOutcome(file, dry_run,
        UpdateLoop(file, 1,
            [holidays |-> file, messages |-> <<>>, success |-> TRUE,
             changes_count |-> 0, raised |-> FALSE]))

\* the three checks of validate_file on a kurdish_date that has year, month
\* and day
InvalidError(kurdish_date, idx) ==
    IF is_valid_kurdish_date(kurdish_date["year"],
                             ByName(kurdish_date["month"]),
                             kurdish_date["day"])
    THEN <<>> ELSE <<Msg("invalid_kurdish_date", idx - 1)>>

IncorrectError(kurdish_date, calculated_kurdish_date, idx) ==
    IF \E f \in {"year", "month", "day"} :
           calculated_kurdish_date[f] # kurdish_date[f]
    THEN <<Msg("incorrect_calculation", idx - 1)>> ELSE <<>>

FormattingError(kurdish_date, expected_full_date, idx) ==
    IF kurdish_date["full_date"] # expected_full_date.text
    THEN <<Msg("incorrect_formatting", idx - 1)>> ELSE <<>>

\* the errors of the second and third check, up to the KeyError that
\* kurdish_date["full_date"] raises when the field is missing
CalculationErrors(kurdish_date, gregorian_date, idx) ==
    IF "full_date" \notin DOMAIN kurdish_date
    THEN [errors |-> IncorrectError(kurdish_date,
                                    gregorian_to_kurdish(gregorian_date), idx),
          raised |-> TRUE]
    ELSE [errors |->
              IncorrectError(kurdish_date,
                             gregorian_to_kurdish(gregorian_date), idx)
              \o FormattingError(
                     kurdish_date,
                     format_kurdish_date(kurdish_date["day"],
                                         ByName(kurdish_date["month"]),
                                         kurdish_date["year"]),
                     idx),
          raised |-> FALSE]

\* gregorian_to_kurdish raises ValueError for a date text it cannot parse
AfterValidity(invalid, rest) ==
    [errors |-> invalid \o rest.errors, raised |-> rest.raised]

\* the errors validate_file appends for one record that has a date and a
\* kurdish_date with year, month and day, up to the exception if one is
\* raised
RecordErrors(holiday, idx) ==
    AfterValidity(
        InvalidError(holiday["kurdish_date"], idx),
        IF FromIsoFormat(holiday["date"]) = NoDate
        THEN [errors |-> <<>>, raised |-> TRUE]
        ELSE CalculationErrors(holiday["kurdish_date"],
                               FromIsoFormat(holiday["date"]), idx))

\* one "missing field" error for each required field that is missing
FieldErrors(missing, idx) ==
    [i \in 1 .. Len(missing) |-> Msg("missing_field", idx - 1)]

\* the state of validate_file after the checks of one record
Checked(st, errs, raised) ==
    [st EXCEPT !.errors = @ \o errs,
               !.success = @ /\ errs = <<>> /\ ~raised,
               !.raised = raised]

AfterRecord(st, field_errors, r) ==
    Checked(st, field_errors \o r.errors, r.raised)

\* reading kurdish_date["year"], ["month"] or ["day"] raises KeyError when
\* the field is missing
CheckedRecord(st, holiday, idx, missing) ==
    IF \E i \in 1 .. Len(missing) : missing[i] \in {"year", "month", "day"}
    THEN Checked(st, FieldErrors(missing, idx), TRUE)
    ELSE AfterRecord(st, FieldErrors(missing, idx), RecordErrors(holiday, idx))

RECURSIVE ValidateLoop(_, _, _)
\* the loop of validate_file from the record at position idx on;
\* st.raised is the exception that ends the function
ValidateLoop(records, idx, st) ==
    IF idx > Len(records) \/ st.raised THEN st
    ELSE IF ~Has(records[idx], "date")
    THEN ValidateLoop(records, idx + 1,
             Checked(st, <<Msg("missing_date", idx - 1)>>, FALSE))
    ELSE IF ~Has(records[idx], "kurdish_date")
    THEN ValidateLoop(records, idx + 1,
             Checked(st, <<Msg("missing_kurdish_date", idx - 1)>>, FALSE))
    ELSE ValidateLoop(records, idx + 1,
             CheckedRecord(st, records[idx], idx,
                           MissingFields(records[idx]["kurdish_date"])))

\* what validate_file returns after its loop
ValidateOutcome(file, st) ==
    IF st.raised
    THEN ScriptResult(file, FALSE,
                      Append(st.errors, Msg("unexpected_error", 0)))
    ELSE ScriptResult(file, st.success, st.errors)

\* validate_file(file_path) on a file with the content file
validate_file(file) ==
    ValidateOutcome(file,
        ValidateLoop(file, 1,
            [errors |-> <<>>, success |-> TRUE, raised |-> FALSE]))

(***************************************************************************)
(* The converter as a state machine.  The functions are stateless, so a    *)
(* behaviour is one call from the start state, optionally followed by a    *)
(* second function applied to what the first returned.                     *)
(***************************************************************************)
NoKurdish == KurdishDict(0, "", 0, <<>>)
NoArgs    == [year |-> 0, month |-> ByIndex(0), day |-> 0]
NoText    == [err |-> "none", text |-> <<>>]

KurdishYears ==
    {2698, 2702, 2704} \cup {y + 699 : y \in GregorianYears}

MonthArgs ==
    {ByName(n) : n \in MonthNames \cup {"Nowroz"}}
        \cup {ByIndex(i) : i \in 0 .. 13}

KurdishDays == 0 .. MaxDay

(***************************************************************************)
(* The contents of the data files.  The files hold at most MaxRecords      *)
(* records altogether, taken from SampleRecords: records that share a      *)
(* unique key, records without 'type', 'region' or 'date', a null type,    *)
(* regions written in capitals, and dates before and after 2023.           *)
(***************************************************************************)
SampleRecords ==
    { [date |-> "2023-03-21", type |-> "cultural", region |-> "all",
       isHoliday |-> TRUE, event |-> [en |-> "Newroz", ku |-> "Newroz-ku"]],
      [date |-> "2023-03-21", type |-> "cultural", region |-> "all",
       isHoliday |-> FALSE, event |-> [en |-> "Spring"]],
      [date |-> "2023-03-21", region |-> "ALL",
       isHoliday |-> TRUE, event |-> [en |-> "Untyped"]],
      [date |-> "2023-03-21", type |-> None, region |-> "ALL",
       isHoliday |-> TRUE, event |-> [en |-> "NullType"]],
      [date |-> "1946-01-22", type |-> "historical", region |-> "rojhelat",
       isHoliday |-> FALSE, event |-> [en |-> "Mahabad"]],
      [date |-> "2022-06-01", type |-> "historical",
       isHoliday |-> FALSE, event |-> [en |-> "NoRegion"]],
      [date |-> "2024-03-21", type |-> "cultural", region |-> "Bashur",
       isHoliday |-> TRUE, event |-> [en |-> "Newroz24"]],
      [type |-> "cultural", region |-> "all",
       isHoliday |-> TRUE, event |-> [en |-> "NoDate"]] }

\* the parameter values of the queries
RangeFromDates  == {"2022-01-01", "2023-03-21"}
RangeToDates    == {"2022-12-31", "2023-03-21", "2025-01-01"}
SingleDates     == {"1946-01-22", "2023-03-21"}
NoFilter        == [region |-> {}, type |-> {}, is_holiday |-> {}]
ByRegion        == [NoFilter EXCEPT !.region = {"bashur"}]
ByType          == [NoFilter EXCEPT !.type = {"cultural"}]
RangeFilters    == {NoFilter, ByRegion, ByType,
                    [NoFilter EXCEPT !.is_holiday = {TRUE}]}
DateFilters     == {NoFilter, ByRegion, ByType}
ListFilters     == {NoFilter, ByRegion,
                    [NoFilter EXCEPT !.is_holiday = {FALSE}]}
Langs           == {"en"}

\* today is the text of datetime.now() that get_today_holidays reads
NoRequest ==
    [from_date |-> "", to_date |-> "", date |-> "", year |-> 0, month |-> 0,
     day |-> 0, lang |-> "en", region |-> {}, type |-> {}, is_holiday |-> {},
     include_historical |-> FALSE, today |-> ""]

NoResponse == ListResponse(<<>>)

NoReply == [status |-> 0, detail |-> "", gregorian_date |-> NoDate]
NoReport == [dry_run |-> FALSE, read |-> <<>>, success |-> TRUE,
             messages |-> <<>>]

\* no call is in progress
ConvIdle ==
    /\ gdate = NoDate
    /\ kdate = NoKurdish
    /\ gback = Raised("none")
    /\ kin = NoArgs
    /\ valid = FALSE
    /\ text = NoText
    /\ reply = NoReply

\* no data file is being checked
ScriptIdle ==
    /\ dataFile = <<>>
    /\ report = NoReport

AggIdle ==
    /\ request = NoRequest
    /\ loads = <<>>
    /\ holidays = <<>>
    /\ response = NoResponse

\* the converter reads no data file
ConvInit ==
    /\ op = "start"
    /\ ConvIdle
    /\ ScriptIdle
    /\ AggIdle
    /\ yearFiles = [y \in FileYears |-> <<>>]
    /\ historical = <<>>

\* gregorian_to_kurdish(dt)
ConvertGregorian ==
    \E dt \in GregorianDates :
        /\ op = "start"
        /\ op' = "gregorian_to_kurdish"
        /\ gdate' = dt
        /\ kdate' = gregorian_to_kurdish(dt)
        /\ gback' = Raised("none")
        /\ kin' = NoArgs
        /\ valid' = FALSE
        /\ text' = NoText
        /\ reply' = NoReply
        /\ UNCHANGED <<aggVars, scriptVars>>

\* kurdish_to_gregorian applied to the date gregorian_to_kurdish returned
ConvertBack ==
    /\ op = "gregorian_to_kurdish"
    /\ op' = "round_trip"
    /\ gback' = kurdish_to_gregorian(kdate.year, ByName(kdate.month),
                                     kdate.day)
    /\ UNCHANGED <<gdate, kdate, kin, valid, text, reply>>
    /\ UNCHANGED <<aggVars, scriptVars>>

\* format_kurdish_date applied to the date gregorian_to_kurdish returned
\* (validate_file compares the two texts)
FormatConverted ==
    /\ op = "gregorian_to_kurdish"
    /\ op' = "format_kurdish_date"
    /\ text' = format_kurdish_date(kdate.day, ByName(kdate.month),
                                   kdate.year)
    /\ UNCHANGED <<gdate, kdate, gback, kin, valid, reply>>
    /\ UNCHANGED <<aggVars, scriptVars>>

\* is_valid_kurdish_date applied to the date gregorian_to_kurdish returned
\* (validate_file checks a record's kurdish_date with it)
ValidateConverted ==
    /\ op = "gregorian_to_kurdish"
    /\ op' = "validate_converted"
    /\ kin' = [year |-> kdate.year, month |-> ByName(kdate.month),
               day |-> kdate.day]
    /\ valid' = is_valid_kurdish_date(kdate.year, ByName(kdate.month),
                                      kdate.day)
    /\ UNCHANGED <<gdate, kdate, gback, text, reply>>
    /\ UNCHANGED <<aggVars, scriptVars>>

\* kurdish_to_gregorian(year, month, day)
ConvertKurdish ==
    \E y \in KurdishYears, m \in MonthArgs, d \in KurdishDays :
        /\ op = "start"
        /\ op' = "kurdish_to_gregorian"
        /\ kin' = [year |-> y, month |-> m, day |-> d]
        /\ gback' = kurdish_to_gregorian(y, m, d)
        /\ gdate' = NoDate
        /\ kdate' = NoKurdish
        /\ valid' = FALSE
        /\ text' = NoText
        /\ reply' = NoReply
        /\ UNCHANGED <<aggVars, scriptVars>>

\* is_valid_kurdish_date(year, month, day)
ValidateKurdish ==
    \E y \in KurdishYears, m \in MonthArgs, d \in KurdishDays :
        /\ op = "start"
        /\ op' = "is_valid_kurdish_date"
        /\ kin' = [year |-> y, month |-> m, day |-> d]
        /\ valid' = is_valid_kurdish_date(y, m, d)
        /\ gdate' = NoDate
        /\ kdate' = NoKurdish
        /\ gback' = Raised("none")
        /\ text' = NoText
        /\ reply' = NoReply
        /\ UNCHANGED <<aggVars, scriptVars>>

ConvNext ==
    \/ ConvertGregorian
    \/ ConvertBack
    \/ FormatConverted
    \/ ValidateConverted
    \/ ConvertKurdish
    \/ ValidateKurdish

vars == <<op, gdate, kdate, gback, kin, valid, text, reply, dataFile, report,
          yearFiles, historical, request, loads, holidays, response>>

SpecConv == ConvInit /\ [][ConvNext]_vars

(***************************************************************************)
(* The calendar route as a state machine: one request per behaviour.       *)
(***************************************************************************)
\* POST /kurdish-to-gregorian with the body {year, month, day}
ConvertKurdishToGregorian ==
    \E y \in KurdishYears, m \in MonthArgs, d \in KurdishDays :
        /\ op = "start"
        /\ op' = "convert_kurdish_to_gregorian"
        /\ kin' = [year |-> y, month |-> m, day |-> d]
        /\ reply' = convert_kurdish_to_gregorian(kin')
        /\ UNCHANGED <<gdate, kdate, gback, valid, text>>
        /\ UNCHANGED <<aggVars, scriptVars>>

CalendarNext == ConvertKurdishToGregorian

SpecCalendar == ConvInit /\ [][CalendarNext]_vars

(***************************************************************************)
(* The script as a state machine: a year file with some content, on which  *)
(* update_kurdish_dates or validate_file runs, validate_file possibly      *)
(* after update_kurdish_dates.                                             *)
(***************************************************************************)
ScriptDates == {"2023-03-21", "2023-07-25", "2024-01-25", "2024-03-06"}

\* a kurdish_date whose day is not the converter's
StaleKurdishDate(k) == KurdishDict(k.year, k.month, k.day + 1, k.full_date)

\* a kurdish_date without full_date
PartialKurdishDate(k) == [year |-> k.year, month |-> k.month, day |-> k.day]

\* records without kurdish_date, with the converter's, with a stale and
\* with a partial one, a record without date and one whose date does not
\* parse
ScriptRecords ==
    {[date |-> d] : d \in ScriptDates \cup {"21/03/2023"}}
    \cup {[date |-> d,
           kurdish_date |-> gregorian_to_kurdish(FromIsoFormat(d))] :
             d \in ScriptDates}
    \cup {[date |-> d,
           kurdish_date |->
               StaleKurdishDate(gregorian_to_kurdish(FromIsoFormat(d)))] :
             d \in ScriptDates}
    \cup {[date |-> d,
           kurdish_date |->
               PartialKurdishDate(gregorian_to_kurdish(FromIsoFormat(d)))] :
             d \in ScriptDates}
    \cup {[isHoliday |-> TRUE]}

ScriptInit ==
    /\ op = "start"
    /\ ConvIdle
    /\ AggIdle
    /\ yearFiles = [y \in FileYears |-> <<>>]
    /\ historical = <<>>
    /\ report = NoReport
    /\ \E n \in 0 .. MaxRecords : dataFile \in [1 .. n -> ScriptRecords]

\* one run of the script: the function name ran with the flag dry_run on
\* the file and gave the result r
Ran(name, dry_run, r) ==
    /\ op' = name
    /\ dataFile' = r.file
    /\ report' = [dry_run |-> dry_run, read |-> dataFile,
                  success |-> r.success, messages |-> r.messages]
    /\ UNCHANGED <<gdate, kdate, gback, kin, valid, text, reply>>
    /\ UNCHANGED aggVars

\* python validate_kurdish_dates.py --update [--dry-run] --file <file>
UpdateKurdishDates ==
    \E dry_run \in BOOLEAN :
        /\ op = "start"
        /\ Ran("update_kurdish_dates", dry_run,
               update_kurdish_dates(dataFile, dry_run))

\* python validate_kurdish_dates.py --file <file>, on a file as it is or
\* after the update
ValidateFile ==
    /\ op \in {"start", "update_kurdish_dates"}
    /\ Ran(IF op = "start" THEN "validate_file" ELSE "update_then_validate",
           report.dry_run, validate_file(dataFile))

ScriptNext ==
    \/ UpdateKurdishDates
    \/ ValidateFile

SpecScript == ScriptInit /\ [][ScriptNext]_vars

(***************************************************************************)
(* The holiday queries as a state machine.  The data files are written     *)
(* out of band and do not change while the service runs; a behaviour is    *)
(* one request against some contents of the files.                         *)
(***************************************************************************)
AggInit ==
    /\ op = "start"
    /\ ConvIdle
    /\ ScriptIdle
    /\ AggIdle
    /\ \E n23 \in 0 .. MaxRecords, n24 \in 0 .. MaxRecords,
          nh \in 0 .. MaxRecords :
          /\ n23 + n24 + nh <= MaxRecords
          /\ \E a \in [1 .. n23 -> SampleRecords],
                b \in [1 .. n24 -> SampleRecords] :
                yearFiles = [y \in FileYears |-> IF y = 2023 THEN a ELSE b]
          /\ historical \in [1 .. nh -> SampleRecords]

Answer(o) ==
    /\ loads' = o.loads
    /\ holidays' = o.holidays
    /\ response' = o.response

\* GET /api/v1/holidays/range/{from_date}/{to_date}
GetHolidaysByDateRange ==
    \E f \in RangeFromDates, t \in RangeToDates, flt \in RangeFilters,
       inc \in BOOLEAN, l \in Langs :
        LET p == [NoRequest EXCEPT !.from_date = f, !.to_date = t,
                                   !.region = flt.region, !.type = flt.type,
                                   !.is_holiday = flt.is_holiday, !.lang = l,
                                   !.include_historical = inc]
        IN  /\ op = "start"
            /\ op' = "get_holidays_by_date_range"
            /\ request' = p
            /\ Answer(get_holidays_by_date_range(yearFiles, historical, p))
            /\ UNCHANGED <<yearFiles, historical>>
            /\ UNCHANGED <<gdate, kdate, gback, kin, valid, text, reply>>
            /\ UNCHANGED scriptVars

\* GET /api/v1/holidays/{date}
GetHolidaysByDate ==
    \E d \in SingleDates, flt \in DateFilters, inc \in BOOLEAN,
       l \in Langs :
        LET p == [NoRequest EXCEPT !.date = d, !.region = flt.region,
                                   !.type = flt.type,
                                   !.lang = l, !.include_historical = inc]
        IN  /\ op = "start"
            /\ op' = "get_holidays_by_date"
            /\ request' = p
            /\ Answer(get_holidays_by_date(yearFiles, historical, p))
            /\ UNCHANGED <<yearFiles, historical>>
            /\ UNCHANGED <<gdate, kdate, gback, kin, valid, text, reply>>
            /\ UNCHANGED scriptVars

\* the orders in which glob can yield the year files
GlobOrders == {<<2023, 2024>>, <<2024, 2023>>}

\* the filter combinations of GET /api/v1/holidays
ListSelections ==
    {<<0, 0, 0, "", "">>, <<2023, 0, 0, "", "">>, <<0, 3, 21, "", "">>,
     <<0, 0, 0, "2022-01-01", "2023-03-21">>,
     <<0, 0, 0, "2023-03-21", "2022-12-31">>,
     <<2023, 3, 21, "2022-01-01", "2023-03-21">>}

\* GET /api/v1/holidays
GetHolidays ==
    \E sel \in ListSelections, flt \in ListFilters, inc \in BOOLEAN,
       l \in Langs, order \in GlobOrders :
        LET p == [NoRequest EXCEPT !.year = sel[1], !.month = sel[2],
                                   !.day = sel[3],
                                   !.from_date = sel[4], !.to_date = sel[5],
                                   !.region = flt.region, !.type = flt.type,
                                   !.is_holiday = flt.is_holiday, !.lang = l,
                                   !.include_historical = inc]
        IN  /\ op = "start"
            /\ op' = "get_holidays"
            /\ request' = p
            /\ Answer(get_holidays(yearFiles, historical, p, order))
            /\ UNCHANGED <<yearFiles, historical>>
            /\ UNCHANGED <<gdate, kdate, gback, kin, valid, text, reply>>
            /\ UNCHANGED scriptVars

\* one request p served by a handler that computed the outcome o
Serve(name, p, o) ==
    /\ op = "start"
    /\ op' = name
    /\ request' = p
    /\ Answer(o)
    /\ UNCHANGED <<yearFiles, historical>>
    /\ UNCHANGED <<gdate, kdate, gback, kin, valid, text, reply>>
            /\ UNCHANGED scriptVars

\* the days on which the clock is read
TodayDates   == {"2023-03-21", "2024-03-21"}
TodayFilters == {NoFilter, ByRegion}

\* GET /api/v1/holidays/today
GetTodayHolidays ==
    \E now \in TodayDates, flt \in TodayFilters, inc \in BOOLEAN,
       l \in Langs :
        LET p == [NoRequest EXCEPT !.today = now, !.region = flt.region,
                                   !.type = flt.type, !.lang = l,
                                   !.include_historical = inc]
        IN  Serve("get_today_holidays", p,
                  get_today_holidays(yearFiles, historical, p))

AggNext ==
    \/ GetHolidaysByDateRange
    \/ GetHolidaysByDate
    \/ GetHolidays
    \/ GetTodayHolidays

SpecAgg == AggInit /\ [][AggNext]_vars

(***************************************************************************)
(* The holiday queries against files that mix well-formed records with     *)
(* records that lack a required key, carry a date text that is no ISO      *)
(* date, or are localised in some languages only.  The requests are        *)
(* without filters and in each of three languages.                         *)
(***************************************************************************)
MixedRecords ==
    { [date |-> "2023-03-21", type |-> "cultural", region |-> "all",
       isHoliday |-> TRUE, event |-> [en |-> "Newroz", ku |-> "Newroz-ku"],
       note |-> [en |-> "New year", ku |-> "New year-ku"]],
      [date |-> "2023-03-21", type |-> "official", region |-> "all",
       isHoliday |-> TRUE, event |-> [en |-> "Flag Day"],
       note |-> [en |-> "Flag note", ku |-> ""]],
      [date |-> "2023-03-21", type |-> "religious", region |-> "all",
       isHoliday |-> FALSE, event |-> [ar |-> "Eid-ar"]],
      [date |-> "2023-03-21", type |-> "political", region |-> "all",
       isHoliday |-> TRUE, note |-> [en |-> "Orphan note"]],
      [date |-> "2023-03-21", type |-> "cultural", region |-> "all",
       isHoliday |-> TRUE, note |-> [en |-> "Shadow note"]],
      [type |-> "cultural", region |-> "all",
       isHoliday |-> TRUE, event |-> [en |-> "NoDate"]],
      [date |-> "21/03/2023", type |-> "cultural", region |-> "all",
       isHoliday |-> TRUE, event |-> [en |-> "BadDate"]] }

MixedLangs == {"en", "ku", "ar"}

MixedSelections ==
    {<<0, 0, 0, "", "">>, <<0, 3, 21, "", "">>,
     <<0, 0, 0, "2022-01-01", "2023-03-21">>}

MixedInit ==
    /\ op = "start"
    /\ ConvIdle
    /\ ScriptIdle
    /\ AggIdle
    /\ \E n23 \in 0 .. MaxRecords, n24 \in 0 .. MaxRecords,
          nh \in 0 .. MaxRecords :
          /\ n23 + n24 + nh <= MaxRecords
          /\ \E a \in [1 .. n23 -> MixedRecords],
                b \in [1 .. n24 -> MixedRecords] :
                yearFiles = [y \in FileYears |-> IF y = 2023 THEN a ELSE b]
          /\ historical \in [1 .. nh -> MixedRecords]

\* GET /api/v1/holidays/range/2022-01-01/2025-01-01?lang=
MixedRange ==
    \E inc \in BOOLEAN, l \in MixedLangs :
        LET p == [NoRequest EXCEPT !.from_date = "2022-01-01",
                                   !.to_date = "2025-01-01", !.lang = l,
                                   !.include_historical = inc]
        IN  Serve("get_holidays_by_date_range", p,
                  get_holidays_by_date_range(yearFiles, historical, p))

\* GET /api/v1/holidays/2023-03-21?lang=
MixedByDate ==
    \E inc \in BOOLEAN, l \in MixedLangs :
        LET p == [NoRequest EXCEPT !.date = "2023-03-21", !.lang = l,
                                   !.include_historical = inc]
        IN  Serve("get_holidays_by_date", p,
                  get_holidays_by_date(yearFiles, historical, p))

\* GET /api/v1/holidays?lang=
MixedList ==
    \E sel \in MixedSelections, inc \in BOOLEAN, l \in MixedLangs,
       order \in GlobOrders :
        LET p == [NoRequest EXCEPT !.year = sel[1], !.month = sel[2],
                                   !.day = sel[3],
                                   !.from_date = sel[4], !.to_date = sel[5],
                                   !.lang = l, !.include_historical = inc]
        IN  Serve("get_holidays", p,
                  get_holidays(yearFiles, historical, p, order))

\* GET /api/v1/holidays/today?lang= on 21 March 2023
MixedToday ==
    \E inc \in BOOLEAN, l \in MixedLangs :
        LET p == [NoRequest EXCEPT !.today = "2023-03-21", !.lang = l,
                                   !.include_historical = inc]
        IN  Serve("get_today_holidays", p,
                  get_today_holidays(yearFiles, historical, p))

MixedNext ==
    \/ MixedRange
    \/ MixedByDate
    \/ MixedList
    \/ MixedToday

SpecMixed == MixedInit /\ [][MixedNext]_vars

(***************************************************************************)
(* C1.  Round trip: for every Gregorian date that is not an override date, *)
(* kurdish_to_gregorian applied to the result of gregorian_to_kurdish      *)
(* gives the date back (all twelve months).                                *)
(***************************************************************************)
OverrideDates ==
    {<<2023, 3, 5>>, <<2023, 3, 10>>, <<2023, 3, 16>>,
     <<2024, 3, 6>>, <<2024, 3, 11>>,
     <<2026, 3, 5>>, <<2026, 3, 10>>, <<2026, 3, 16>>,
     <<2023, 7, 25>>, <<2024, 6, 1>>}

C1_RoundTrip ==
    (op = "round_trip" /\ gdate \notin OverrideDates)
        => gback = Returned(gdate)

(***************************************************************************)
(* C2.  Override precedence: for each override date gregorian_to_kurdish   *)
(* returns the listed year, month and day: 2023-07-25 is 3 Gelawej 2723,   *)
(* 2024-06-01 is 11 Cozerdan 2724, and the March dates are Reseme days     *)
(* 14/19/25 (2023 and 2026) and 15/20 (2024) of Kurdish year Gregorian     *)
(* year + 699.                                                             *)
(***************************************************************************)
C2_Expected(dt) ==
    CASE dt = <<2023, 7, 25>> -> <<2723, "Gelawej", 3>>
      [] dt = <<2024, 6, 1>>  -> <<2724, "Cozerdan", 11>>
      [] dt = <<2023, 3, 5>>  -> <<2023 + 699, "Reseme", 14>>
      [] dt = <<2023, 3, 10>> -> <<2023 + 699, "Reseme", 19>>
      [] dt = <<2023, 3, 16>> -> <<2023 + 699, "Reseme", 25>>
      [] dt = <<2026, 3, 5>>  -> <<2026 + 699, "Reseme", 14>>
      [] dt = <<2026, 3, 10>> -> <<2026 + 699, "Reseme", 19>>
      [] dt = <<2026, 3, 16>> -> <<2026 + 699, "Reseme", 25>>
      [] dt = <<2024, 3, 6>>  -> <<2024 + 699, "Reseme", 15>>
      [] dt = <<2024, 3, 11>> -> <<2024 + 699, "Reseme", 20>>

C2_OverridePrecedence ==
    (op = "gregorian_to_kurdish" /\ gdate \in OverrideDates)
        => <<kdate.year, kdate.month, kdate.day>> = C2_Expected(gdate)

\* an override date whose day differs from the days since 20 February
C2_Witness ==
    /\ op = "gregorian_to_kurdish"
    /\ gdate = <<2024, 3, 6>>
    /\ kdate.day = 15
    /\ DaysBetween(gdate, <<2024, 2, 20>>) + 1 = 16

(***************************************************************************)
(* C3.  Validation whitelist: is_valid_kurdish_date answers true for the   *)
(* triples (2698, Rebendan, 26), (2702, Reseme, 28), (2704, Rebendan, 10)  *)
(* and, in every year, for the name Reseme with a day in                   *)
(* {6,10,14,15,16,17,19,20,23,24,25,26} and the name Rebendan with a day   *)
(* in {2,10,12,26}, whatever the round trip gives.                         *)
(***************************************************************************)
C3_Whitelisted(a) ==
    /\ a.month.isStr
    /\ \/ (a.year = 2698 /\ a.month.name = "Rebendan" /\ a.day = 26)
       \/ (a.year = 2702 /\ a.month.name = "Reseme" /\ a.day = 28)
       \/ (a.year = 2704 /\ a.month.name = "Rebendan" /\ a.day = 10)
       \/ (a.month.name = "Reseme"
           /\ a.day \in {6, 10, 14, 15, 16, 17, 19, 20, 23, 24, 25, 26})
       \/ (a.month.name = "Rebendan" /\ a.day \in {2, 10, 12, 26})

C3_ValidationWhitelist ==
    (op = "is_valid_kurdish_date" /\ C3_Whitelisted(kin)) => valid = TRUE

\* a whitelisted triple that the round trip alone rejects
C3_Witness ==
    /\ op = "is_valid_kurdish_date"
    /\ kin = [year |-> 2702, month |-> ByName("Reseme"), day |-> 28]
    /\ valid = TRUE
    /\ ~RoundTripValid(2702, ByName("Reseme"), 12, 28)

(***************************************************************************)
(* Helpers of the statements about the holiday queries.                    *)
(***************************************************************************)
Elems(seq) == {seq[i] : i \in 1 .. Len(seq)}

Answered(name) == op = name /\ response.error = ""

RECURSIVE Flatten(_)
Flatten(seqs) ==
    IF seqs = <<>> THEN <<>> ELSE Head(seqs) \o Flatten(Tail(seqs))

\* the records the query read, in load order; order is the glob order of a
\* load of all years
LoadedRecords(order) ==
    Flatten([i \in 1 .. Len(loads) |->
        IF loads[i].file_name = "historical.json" THEN historical
        ELSE IF loads[i].year = 0 THEN LoadAll(yearFiles, order)
        ELSE LoadYear(yearFiles, loads[i].year)])

\* the records read from year files
LoadedYearly ==
    UNION {IF loads[i].file_name # "" THEN {}
           ELSE IF loads[i].year = 0
                THEN UNION {Elems(yearFiles[y]) : y \in FileYears}
                ELSE Elems(LoadYear(yearFiles, loads[i].year))
           : i \in 1 .. Len(loads)}

\* the composite key (date, type or "unknown", region or "unknown")
CompositeKey(h) ==
    <<h["date"],
      IF Has(h, "type") THEN h["type"] ELSE "unknown",
      IF Has(h, "region") THEN h["region"] ELSE "unknown">>

(***************************************************************************)
(* C4.  No duplicates in a range query: whatever the files hold and        *)
(* whatever the parameters, the returned list has no two entries with the  *)
(* same (date, type, region) key, the key being read from the returned     *)
(* entries as check_for_duplicates of the tests reads it.                  *)
(***************************************************************************)
\* f"{x['date']}_{x.get('type')}_{x.get('region')}" of api/test_api.py
ReturnedKey(x) == x.date \o "_" \o x.type \o "_" \o x.region

C4_NoDuplicateKeys ==
    Answered("get_holidays_by_date_range")
        => \A i, j \in 1 .. Len(response.items) :
               i # j => ReturnedKey(response.items[i])
                            # ReturnedKey(response.items[j])

(***************************************************************************)
(* C5.  Historical cutoff of the range query: historical.json is read      *)
(* exactly when include_historical is set or the start year is before      *)
(* 2023, after the year files of max(2023, start year) .. end year and no  *)
(* other; a range that starts before 2023 returns, without the flag, the   *)
(* historical records of the range that pass the filters and whose key no  *)
(* earlier record holds; a range that starts in 2023 or later returns,     *)
(* without the flag, only records of the year files.                       *)
(***************************************************************************)
C5_StartYear == ParseIso(request.from_date)[1]
C5_EndYear   == ParseIso(request.to_date)[1]

C5_PassesFilters(h) ==
    /\ DateLE(ParseIso(request.from_date), ParseIso(h["date"]))
    /\ DateLE(ParseIso(h["date"]), ParseIso(request.to_date))
    /\ (request.region # {}
           => Has(h, "region")
              /\ \E r \in request.region : h["region"] \in {r, "all", "ALL"})
    /\ (request.type # {}    => Has(h, "type") /\ h["type"] \in request.type)
    /\ (request.is_holiday # {}
           => Has(h, "isHoliday") /\ h["isHoliday"] \in request.is_holiday)

C5_HistoricalCutoff ==
    Answered("get_holidays_by_date_range") =>
        LET years == {y \in C5_StartYear .. C5_EndYear : y >= 2023}
            n     == Cardinality(years)
        IN  /\ (HistoricalCall \in Elems(loads))
                   <=> (request.include_historical \/ C5_StartYear < 2023)
            /\ Len(loads) = n + (IF HistoricalCall \in Elems(loads) THEN 1 ELSE 0)
            /\ \A i \in 1 .. n :
                   loads[i] = LoadCall(IF C5_StartYear >= 2023
                                       THEN C5_StartYear + i - 1
                                       ELSE 2023 + i - 1, "")
            /\ (C5_StartYear < 2023 =>
                   \A j \in 1 .. Len(historical) :
                       LET h == historical[j]
                       IN  (/\ Has(h, "date") /\ Has(h, "event")
                            /\ C5_PassesFilters(h)
                            /\ \A g \in LoadedYearly :
                                   Has(g, "date")
                                       => CompositeKey(g) # CompositeKey(h)
                            /\ \A k \in 1 .. (j - 1) :
                                   Has(historical[k], "date")
                                       => CompositeKey(historical[k])
                                              # CompositeKey(h))
                           => Entry(h, request.lang) \in Elems(response.items))
            /\ ((C5_StartYear >= 2023 /\ ~request.include_historical) =>
                   \A x \in Elems(response.items) :
                       \E g \in LoadedYearly :
                           ~Malformed(g) /\ Entry(g, request.lang) = x)

\* 2022-01-01 .. 2022-12-31 without the flag returns the record of 2022 that
\* only historical.json holds
C5_Witness ==
    /\ Answered("get_holidays_by_date_range")
    /\ request.from_date = "2022-01-01"
    /\ request.to_date = "2022-12-31"
    /\ ~request.include_historical
    /\ loads = <<HistoricalCall>>
    /\ \E x \in Elems(response.items) : x.date = "2022-06-01"

(***************************************************************************)
(* C6.  A single-date lookup of a date before 2023, and a filtered list    *)
(* whose from_date is before 2023, read historical.json even when          *)
(* include_historical is not set.                                          *)
(***************************************************************************)
C6_ImplicitHistorical ==
    (\/ (Answered("get_holidays_by_date") /\ ParseIso(request.date)[1] < 2023)
     \/ (Answered("get_holidays") /\ request.from_date # ""
         /\ ParseIso(request.from_date)[1] < 2023))
        => HistoricalCall \in Elems(loads)

(***************************************************************************)
(* C7.  The merged list of a query holds, for each composite key, exactly  *)
(* the first record in load order, and the kept records stand in load      *)
(* order; the year files are read in ascending order before                *)
(* historical.json, so a record of a year file wins over a historical      *)
(* record with the same key.                                               *)
(***************************************************************************)
C7_FirstOccurrences(R) ==
    LET keep == {i \in 1 .. Len(R) :
                    /\ Has(R[i], "date")
                    /\ \A j \in 1 .. (i - 1) :
                           Has(R[j], "date")
                               => CompositeKey(R[j]) # CompositeKey(R[i])}
        Nth(n) == CHOOSE i \in keep : Cardinality({j \in keep : j <= i}) = n
    IN  [n \in 1 .. Cardinality(keep) |-> R[Nth(n)]]

C7_IsQuery ==
    \/ Answered("get_holidays_by_date_range")
    \/ Answered("get_holidays_by_date")
    \/ Answered("get_holidays")

C7_FirstRecordWins ==
    C7_IsQuery =>
        /\ \E order \in GlobOrders :
               holidays = C7_FirstOccurrences(LoadedRecords(order))
        /\ \A i \in 1 .. Len(loads) :
               loads[i].file_name = "historical.json" => i = Len(loads)
        /\ \A i, j \in 1 .. Len(loads) :
               (i < j /\ loads[j].file_name = "") => loads[i].year < loads[j].year
        /\ \A h \in Elems(holidays) :
               (\E g \in LoadedYearly :
                    Has(g, "date") /\ CompositeKey(g) = CompositeKey(h))
                   => h \in LoadedYearly

\* a year file and historical.json hold different records with one key, and
\* the record of the year file is the one kept
C7_Witness ==
    /\ Answered("get_holidays_by_date_range")
    /\ Len(yearFiles[2023]) = 1
    /\ Len(historical) = 1
    /\ Has(yearFiles[2023][1], "date")
    /\ Has(historical[1], "date")
    /\ CompositeKey(yearFiles[2023][1]) = CompositeKey(historical[1])
    /\ yearFiles[2023][1] # historical[1]
    /\ Len(loads) >= 2
    /\ holidays = yearFiles[2023]

(***************************************************************************)
(* C8.  Dedup idempotence: for the records R a range query read, the       *)
(* duplicate check applied twice gives what it gives applied once, and     *)
(* its result is never longer than R.                                      *)
(***************************************************************************)
C8_Read == LoadedRecords(<<2023, 2024>>)

C8_DedupIdempotent ==
    Answered("get_holidays_by_date_range") =>
        /\ UniqueHolidays(UniqueHolidays(C8_Read)) = UniqueHolidays(C8_Read)
        /\ Len(UniqueHolidays(C8_Read)) <= Len(C8_Read)

\* two records with one key were read and the check dropped the second
C8_Witness ==
    /\ Answered("get_holidays_by_date_range")
    /\ Len(C8_Read) = 2
    /\ Has(C8_Read[1], "date") /\ Has(C8_Read[2], "date")
    /\ C8_Read[1] # C8_Read[2]
    /\ UniqueHolidays(C8_Read) = <<C8_Read[1]>>

(***************************************************************************)
(* C9.  Region filter: with a region r, the result is the result of the    *)
(* same query without the region, restricted to the records whose stored   *)
(* region is r or "all" in any letter case; a record without a region is   *)
(* excluded by every region filter and is returned with region "unknown"   *)
(* when no region is given.                                                *)
(***************************************************************************)
C9_StoredMatches(stored, r) ==
    \/ stored \in {"all", "ALL", "All"}
    \/ stored = r
    \/ (r = "bashur" /\ stored \in {"Bashur", "BASHUR"})

C9_WithoutRegion(order) ==
    LET p == [request EXCEPT !.region = {}]
    IN  IF op = "get_holidays_by_date_range"
            THEN get_holidays_by_date_range(yearFiles, historical, p).response
        ELSE IF op = "get_holidays_by_date"
            THEN get_holidays_by_date(yearFiles, historical, p).response
        ELSE get_holidays(yearFiles, historical, p, order).response

C9_Restricted(items, r) ==
    LET Keep(x) == C9_StoredMatches(x.region, r)
    IN  SelectSeq(items, Keep)

C9_RegionFilter ==
    /\ (C7_IsQuery /\ request.region # {}) =>
           LET r == CHOOSE v \in request.region : TRUE
           IN  /\ \E order \in GlobOrders :
                      /\ C9_WithoutRegion(order).error = ""
                      /\ response.items
                             = C9_Restricted(C9_WithoutRegion(order).items, r)
               /\ \A x \in Elems(response.items) : x.region # "unknown"
    /\ (Answered("get_holidays_by_date_range") /\ request.region = {}) =>
           \A j \in 1 .. Len(holidays) :
               LET h == holidays[j]
               IN  (/\ ~Has(h, "region") /\ Has(h, "event")
                    /\ C5_PassesFilters(h))
                       => \E x \in Elems(response.items) :
                              /\ x.region = "unknown"
                              /\ x = Entry(h, request.lang)

\* region=bashur returns a record stored as "ALL" and leaves out a record
\* without a region that the same query without the region returns
C9_Witness ==
    /\ Answered("get_holidays_by_date_range")
    /\ request.region = {"bashur"}
    /\ \E x \in Elems(response.items) : x.region = "ALL"
    /\ \E x \in Elems(C9_WithoutRegion(<<2023, 2024>>).items) :
           x.region = "unknown"

(***************************************************************************)
(* C10.  For every Gregorian date, format_kurdish_date applied to the day, *)
(* month and year that gregorian_to_kurdish returned gives exactly the     *)
(* full_date it returned (the two hard-coded texts included): the day in   *)
(* Kurdish-Arabic glyphs, the particle U+06CC, a space, the month name, a  *)
(* space, the year in glyphs.                                              *)
(***************************************************************************)
C10_Glyphs(n) ==
    IF n < 10 THEN <<1632 + n>>
    ELSE IF n < 100 THEN <<1632 + (n \div 10), 1632 + (n % 10)>>
    ELSE IF n < 1000
        THEN <<1632 + (n \div 100), 1632 + ((n \div 10) % 10), 1632 + (n % 10)>>
    ELSE <<1632 + (n \div 1000), 1632 + ((n \div 100) % 10),
           1632 + ((n \div 10) % 10), 1632 + (n % 10)>>

C10_FormatMatchesFullDate ==
    op = "format_kurdish_date"
        => /\ text.err = "none"
           /\ text.text = kdate.full_date
           /\ text.text = C10_Glyphs(kdate.day) \o <<1740, 32>>
                             \o MonthChars(kdate.month) \o <<32>>
                             \o C10_Glyphs(kdate.year)

\* the hard-coded text of 2023-07-25 compared with the formatted one
C10_Witness ==
    /\ op = "format_kurdish_date"
    /\ gdate = <<2023, 7, 25>>
    /\ kdate.full_date = FullDate_2023_07_25
    /\ text.text = kdate.full_date
(***************************************************************************)
(* C11.  Kurdish year rule: for every Gregorian date, override dates       *)
(* included, gregorian_to_kurdish returns the year Gregorian year + 700    *)
(* when the date is on or after 21 March of its Gregorian year and         *)
(* Gregorian year + 699 when it is before 21 March, and no other value.    *)
(***************************************************************************)
C11_OnOrAfterNewroz(dt) == dt[2] > 3 \/ (dt[2] = 3 /\ dt[3] >= 21)

C11_KurdishYearRule ==
    op = "gregorian_to_kurdish"
        => kdate.year = IF C11_OnOrAfterNewroz(gdate) THEN gdate[1] + 700
                        ELSE gdate[1] + 699

\* a January date, converted by the standard calculation to the previous
\* Kurdish year
C11_Witness ==
    /\ op = "gregorian_to_kurdish"
    /\ gdate = <<2025, 1, 15>>
    /\ kdate.year = 2724
    /\ kdate.month = "Befranbar"

(***************************************************************************)
(* C12.  kurdish_to_gregorian for month Rebendan or Reseme (index 11 or    *)
(* 12, or the name) returns the month's anchor (21 January or 20 February) *)
(* of Gregorian year kurdishYear - 700 + 1, plus (day - 1) days.           *)
(***************************************************************************)
C12_MonthNumber(m) == IF m.isStr THEN MonthNumberOf(m.name) ELSE m.num

C12_Anchor(n) == IF n = 11 THEN <<1, 21>> ELSE <<2, 20>>

C12_IncrementedYear ==
    (op = "kurdish_to_gregorian" /\ C12_MonthNumber(kin.month) \in {11, 12})
        => LET a == C12_Anchor(C12_MonthNumber(kin.month))
           IN  gback = Returned(AddDays(<<kin.year - 700 + 1, a[1], a[2]>>,
                                        kin.day - 1))

(***************************************************************************)
(* C19.  General conversion formula: for every Gregorian date that is not  *)
(* an override date, gregorian_to_kurdish returns the month whose anchor   *)
(* is the latest anchor not after the date, the anchors of the previous    *)
(* Gregorian year included (1 .. 20 January belong to Befranbar, anchored  *)
(* on 22 December of the previous year), and the day is the number of days *)
(* from that anchor date to the date, plus 1.                              *)
(***************************************************************************)
C19_Anchors(y) ==
    {[month |-> n,
      date  |-> <<yy, MONTH_START_DAYS[n][1], MONTH_START_DAYS[n][2]>>] :
        n \in MonthNames, yy \in {y - 1, y}}

C19_LatestAnchor(dt) ==
    CHOOSE a \in C19_Anchors(dt[1]) :
        /\ ToOrdinal(a.date) <= ToOrdinal(dt)
        /\ \A b \in C19_Anchors(dt[1]) :
               ToOrdinal(b.date) <= ToOrdinal(dt)
                   => ToOrdinal(b.date) <= ToOrdinal(a.date)

C19_GeneralFormula ==
    (op = "gregorian_to_kurdish" /\ gdate \notin OverrideDates)
        => LET a == C19_LatestAnchor(gdate)
           IN  /\ kdate.month = a.month
               /\ kdate.day = ToOrdinal(gdate) - ToOrdinal(a.date) + 1

\* 10 January 2024 is day 20 of the Befranbar anchored on 22 December 2023
C19_Witness ==
    /\ op = "gregorian_to_kurdish"
    /\ gdate = <<2024, 1, 10>>
    /\ C19_LatestAnchor(gdate).date = <<2023, 12, 22>>
    /\ kdate.month = "Befranbar"
    /\ kdate.day = 20

(***************************************************************************)
(* C20.  gregorian_to_kurdish is total with bounded output: for every      *)
(* Gregorian date the returned month is one of the twelve names (never     *)
(* empty) and the returned day is at least 1 and at most 31 in Xakelew ..  *)
(* Xermanan, at most 30 in Rezber .. Rebendan, and in Reseme at most 29 in *)
(* a non-leap Gregorian year and at most 30 in a leap year.                *)
(***************************************************************************)
C20_MaxDay(month_number, gregorian_year) ==
    IF month_number <= 6 THEN 31
    ELSE IF month_number <= 11 THEN 30
    ELSE IF IsLeap(gregorian_year) THEN 30
    ELSE 29

C20_BoundedOutput ==
    op = "gregorian_to_kurdish"
        => /\ kdate.month \in MonthNames
           /\ kdate.day >= 1
           /\ kdate.day <= C20_MaxDay(MonthNumberOf(kdate.month), gdate[1])

\* the last day of Reseme in a leap year is day 30
C20_Witness ==
    /\ op = "gregorian_to_kurdish"
    /\ gdate = <<2024, 3, 20>>
    /\ kdate.month = "Reseme"
    /\ kdate.day = 30

(***************************************************************************)
(* C13.  Range query output: the result consists of exactly the merged     *)
(* records that pass the filters and whose date d satisfies                *)
(* from_date <= d <= to_date, both ends included, listed in non-decreasing *)
(* date order; records with equal dates keep their load order.             *)
(***************************************************************************)
C13_Selected(h) ==
    /\ Has(h, "date") /\ Has(h, "event")
    /\ DateLE(ParseIso(request.from_date), ParseIso(h["date"]))
    /\ DateLE(ParseIso(h["date"]), ParseIso(request.to_date))
    /\ (request.region # {}
           => Has(h, "region")
              /\ \E r \in request.region : C9_StoredMatches(h["region"], r))
    /\ (request.type # {} => Has(h, "type") /\ h["type"] \in request.type)
    /\ (request.is_holiday # {}
           => Has(h, "isHoliday") /\ h["isHoliday"] \in request.is_holiday)

RECURSIVE C13_GroupedByDate(_)
\* the records of the earliest date in their order, then the others
C13_GroupedByDate(hs) ==
    IF hs = <<>> THEN <<>>
    ELSE LET dates == {hs[i]["date"] : i \in 1 .. Len(hs)}
             first == CHOOSE d \in dates :
                          \A e \in dates : DateLE(ParseIso(d), ParseIso(e))
             OnFirst(h) == h["date"] = first
             Later(h)   == h["date"] # first
         IN  SelectSeq(hs, OnFirst) \o C13_GroupedByDate(SelectSeq(hs, Later))

C13_RangeOutput ==
    Answered("get_holidays_by_date_range") =>
        LET expected == C13_GroupedByDate(SelectSeq(holidays, C13_Selected))
        IN  /\ Len(response.items) = Len(expected)
            /\ \A i \in 1 .. Len(expected) :
                   response.items[i] = Entry(expected[i], request.lang)
            /\ \A i, j \in 1 .. Len(response.items) :
                   i < j => DateLE(ParseIso(response.items[i].date),
                                   ParseIso(response.items[j].date))
            /\ \A x \in Elems(response.items) :
                   /\ DateLE(ParseIso(request.from_date), ParseIso(x.date))
                   /\ DateLE(ParseIso(x.date), ParseIso(request.to_date))

\* two records read in descending date order are returned in ascending
\* order, the earlier one lying on the inclusive end of the range
C13_Witness ==
    /\ Answered("get_holidays_by_date_range")
    /\ request.from_date = "2023-03-21"
    /\ Len(holidays) = 2
    /\ holidays[1]["date"] = "2024-03-21"
    /\ holidays[2]["date"] = "2023-03-21"
    /\ Len(response.items) = 2
    /\ response.items[1].date = "2023-03-21"
    /\ response.items[2].date = "2024-03-21"

(***************************************************************************)
(* C14.  InvalidDateRange: a range query, and a filtered list that takes   *)
(* from_date and to_date, whose to_date is earlier than its from_date is   *)
(* answered with an error instead of a record list; to_date equal to       *)
(* from_date is accepted.                                                  *)
(***************************************************************************)
C14_InvalidDateRange ==
    (/\ op \in {"get_holidays_by_date_range", "get_holidays"}
     /\ request.from_date # "" /\ request.to_date # ""
     /\ ParseIso(request.from_date) # NoDate
     /\ ParseIso(request.to_date) # NoDate)
        => /\ ~DateLE(ParseIso(request.from_date), ParseIso(request.to_date))
                  => response.error # ""
           /\ request.to_date = request.from_date => response.error = ""

(***************************************************************************)
(* C18.  Year filter of the filtered list (get_holidays): when year is     *)
(* given and each yearly source holds only dates of its own year, every    *)
(* returned record's Gregorian date lies in that year, for every value of  *)
(* include_historical and of the other filters.                            *)
(***************************************************************************)
C18_OwnYears ==
    \A y \in FileYears :
        \A h \in Elems(yearFiles[y]) :
            Has(h, "date") => ParseIso(h["date"])[1] = y

C18_YearGiven == Answered("get_holidays") /\ request.year # 0 /\ C18_OwnYears

C18_YearFilter ==
    C18_YearGiven
        => \A x \in Elems(response.items) :
               ParseIso(x.date)[1] = request.year

\* C18 as amended: the dates lie in the year when include_historical is not
\* set; with include_historical a returned record lies in the year or is a
\* record of historical.json, whatever its year
C18_YearFilterOrHistorical ==
    C18_YearGiven
        => \A x \in Elems(response.items) :
               \/ ParseIso(x.date)[1] = request.year
               \/ /\ request.include_historical
                  /\ \E h \in Elems(historical) :
                         ~Malformed(h) /\ Entry(h, request.lang) = x

\* year=2023 with include_historical returns the record of 2023.json and
\* the record of 1946 that historical.json holds
C18_Witness ==
    /\ C18_YearGiven
    /\ request.year = 2023
    /\ request.include_historical
    /\ Len(yearFiles[2023]) = 1
    /\ Len(response.items) = 2
    /\ response.items[1].date = "2023-03-21"
    /\ response.items[2].date = "1946-01-22"

(***************************************************************************)
(* C15.  A source record that lacks a required key (date or event) is left *)
(* out of the result and never makes the query fail: for any mix of such   *)
(* records with well-formed ones, each of the four holiday queries returns *)
(* a record list, not an error object, and the well-formed records of the  *)
(* requested date are in it.                                               *)
(***************************************************************************)
C15_IsQuery ==
    op \in {"get_holidays", "get_today_holidays", "get_holidays_by_date",
            "get_holidays_by_date_range"}

C15_AllRecords ==
    Elems(historical) \cup UNION {Elems(yearFiles[y]) : y \in FileYears}

\* every date text in the files is an ISO date
C15_DatesParse ==
    \A h \in C15_AllRecords : Has(h, "date") => ParseIso(h["date"]) # NoDate

C15_From(h, x) ==
    /\ x.date = h["date"]
    /\ x.type = Get(h, "type", None)
    /\ x.region = Get(h, "region", "unknown")
    /\ x.isHoliday = Get(h, "isHoliday", FALSE)

C15_MalformedSkipped ==
    (C15_IsQuery /\ C15_DatesParse) =>
        /\ response.error = ""
        /\ \A x \in Elems(response.items) :
               \E h \in C15_AllRecords :
                   Has(h, "date") /\ Has(h, "event") /\ C15_From(h, x)
        /\ (op = "get_holidays_by_date"
               /\ request.region = {} /\ request.type = {}) =>
               \A h \in Elems(holidays) :
                   (Has(h, "event") /\ h["date"] = request.date)
                       => \E x \in Elems(response.items) : C15_From(h, x)

\* a record without event and a well-formed record were read for the date,
\* and the answer is the well-formed record alone
C15_Witness ==
    /\ op = "get_holidays_by_date"
    /\ C15_DatesParse
    /\ Len(holidays) = 2
    /\ \E h \in Elems(holidays) : ~Has(h, "event")
    /\ response.error = ""
    /\ Len(response.items) = 1

(***************************************************************************)
(* C16.  A source record whose date is present but is no parseable ISO     *)
(* date never makes a query with valid parameters return an error: the     *)
(* range query and the filtered list still return a record list, and the   *)
(* filtered list reports no invalid from_date or to_date format when the   *)
(* two parameters are valid.                                               *)
(***************************************************************************)
C16_ValidParameters ==
    /\ request.from_date # "" => ParseIso(request.from_date) # NoDate
    /\ request.to_date # "" => ParseIso(request.to_date) # NoDate
    /\ op = "get_holidays_by_date_range"
           => DateLE(ParseIso(request.from_date), ParseIso(request.to_date))

C16_BadDateAbsorbed ==
    (op \in {"get_holidays_by_date_range", "get_holidays"}
        /\ C16_ValidParameters)
        => response.error = ""

(***************************************************************************)
(* C17.  Localization: for a returned record and the language lang, the    *)
(* event is event[lang] when that entry exists, otherwise event["en"],     *)
(* otherwise "Unknown"; the note is note[lang] when present and null       *)
(* otherwise, with no fallback to another language; a record without a     *)
(* note field is still returned, with note null.                           *)
(***************************************************************************)
C17_Event(h, lang) ==
    IF lang \in DOMAIN h["event"] THEN h["event"][lang]
    ELSE IF "en" \in DOMAIN h["event"] THEN h["event"]["en"]
    ELSE "Unknown"

\* the note as the claim states it
C17_NoteWhenPresent(h, lang) ==
    IF Has(h, "note") /\ lang \in DOMAIN h["note"] THEN h["note"][lang]
    ELSE None

\* the note as amended: an empty text counts as absent
C17_NoteWhenNotEmpty(h, lang) ==
    IF Has(h, "note") /\ lang \in DOMAIN h["note"] /\ h["note"][lang] # ""
    THEN h["note"][lang]
    ELSE None

C17_OfDate(h) ==
    \/ (op = "get_holidays_by_date" /\ h["date"] = request.date)
    \/ (op = "get_today_holidays" /\ h["date"] = request.today)

C17_Localized(Note(_, _)) ==
    (C15_IsQuery /\ response.error = "") =>
        /\ \A x \in Elems(response.items) :
               \E h \in Elems(holidays) :
                   /\ Has(h, "event") /\ C15_From(h, x)
                   /\ x.event = C17_Event(h, request.lang)
                   /\ x.note = Note(h, request.lang)
        /\ (request.region = {} /\ request.type = {}) =>
               \A h \in Elems(holidays) :
                   (Has(h, "event") /\ ~Has(h, "note") /\ C17_OfDate(h))
                       => \E x \in Elems(response.items) :
                              C15_From(h, x) /\ x.note = None

C17_Localization == C17_Localized(C17_NoteWhenPresent)

\* C17 as amended: the note is note[lang] when present and not empty
C17_LocalizationNonEmptyNote == C17_Localized(C17_NoteWhenNotEmpty)

\* lang=ku: a record with an English text only is returned with that text,
\* and a record without note and without English text as "Unknown"
C17_Witness ==
    /\ op = "get_holidays_by_date"
    /\ request.lang = "ku"
    /\ response.error = ""
    /\ \E x \in Elems(response.items) : x.event = "Flag Day" /\ x.note = None
    /\ \E x \in Elems(response.items) : x.event = "Unknown" /\ x.note = None

(***************************************************************************)
(* C21.  Every entry of the override table is a real correction: for each  *)
(* override date the day of the general anchor formula (days since the     *)
(* month's anchor, plus 1) differs from the override's day by 1 or 2.      *)
(***************************************************************************)
\* the day the general formula computes for dt
C21_FormulaDay(dt) ==
    ToOrdinal(dt) - ToOrdinal(C19_LatestAnchor(dt).date) + 1

C21_Distance(a, b) == IF a >= b THEN a - b ELSE b - a

C21_LeapYearEntries == {<<2024, 3, 6>>, <<2024, 3, 11>>}

C22_Index(m) == IF m.isStr THEN MonthNumberOf(m.name) ELSE m.num

C22_SpanLength(i) == IF i <= 6 THEN 31 ELSE 30

C22_ValidWithinSpan ==
    (op = "is_valid_kurdish_date" /\ C22_Index(kin.month) \in 1 .. 10)
        => (valid <=> (1 <= kin.day
                       /\ kin.day <= C22_SpanLength(C22_Index(kin.month))))

\* Befranbar 30, which is 20 January of the following Gregorian year
C22_Witness ==
    /\ op = "is_valid_kurdish_date"
    /\ kin = [year |-> 2724, month |-> ByName("Befranbar"), day |-> 30]
    /\ kurdish_to_gregorian(2724, kin.month, 30) = Returned(<<2025, 1, 20>>)
    /\ valid

(***************************************************************************)
(* C23.  The second duplicate check of a range query is neutral: after     *)
(* loading with the duplicate check, the range filter, the region, type    *)
(* and is_holiday filters and the sort, the final check removes no record, *)
(* so the result with it equals the result without it, for all file        *)
(* contents and all filters.                                               *)
(***************************************************************************)
\* the sorted list the final duplicate check is applied to
C23_Sorted ==
    SortByDate(
        FilterIsHoliday(
            FilterType(
                FilterRegion(
                    FilterRange(holidays, ParseIso(request.from_date),
                                ParseIso(request.to_date)),
                    request.region),
                request.type),
            request.is_holiday))

C23_SecondPassNeutral ==
    Answered("get_holidays_by_date_range") =>
        /\ UniqueHolidays(C23_Sorted) = C23_Sorted
        /\ response.items = FormResult(C23_Sorted, request.lang)

\* a year file and historical.json hold two records with one key, both in
\* the range; one reaches the final check
C23_Witness ==
    /\ Answered("get_holidays_by_date_range")
    /\ Len(loads) >= 2
    /\ Len(yearFiles[2023]) = 1
    /\ Len(historical) = 1
    /\ Has(yearFiles[2023][1], "date")
    /\ Has(historical[1], "date")
    /\ yearFiles[2023][1] # historical[1]
    /\ UniqueKey(yearFiles[2023][1]) = UniqueKey(historical[1])
    /\ request.region = {} /\ request.type = {} /\ request.is_holiday = {}
    /\ C23_Sorted = yearFiles[2023]
    /\ Len(response.items) = 1

(***************************************************************************)
(* C24.  The kurdish-to-gregorian conversion request answers a Kurdish     *)
(* date that is_valid_kurdish_date rejects with status 400 and detail      *)
(* "Invalid Kurdish date"; no invalid Kurdish date is answered with status *)
(* 500 or with a converted date.                                           *)
(***************************************************************************)
C24_InvalidDateIs400 ==
    (/\ op = "convert_kurdish_to_gregorian"
     /\ ~is_valid_kurdish_date(kin.year, kin.month, kin.day))
        => /\ reply.status = 400
           /\ reply.detail = "Invalid Kurdish date"
           /\ reply.gregorian_date = NoDate

(***************************************************************************)
(* C25.  gregorian_to_kurdish is injective: two different Gregorian dates  *)
(* never get the same (year, month, day) triple, the dates around the      *)
(* Reseme special cases of March 2023, 2024 and 2026 included.             *)
(***************************************************************************)
C25_Triple(k) == <<k.year, k.month, k.day>>

C25_Injective ==
    op = "gregorian_to_kurdish" =>
        \A other \in GregorianDates :
            other # gdate
                => C25_Triple(gregorian_to_kurdish(other)) # C25_Triple(kdate)

(***************************************************************************)
(* C26.  The validator accepts every converter output: for every Gregorian *)
(* date d, with k = gregorian_to_kurdish(d), is_valid_kurdish_date(k.year, *)
(* k.month, k.day) is true, for all twelve months, so a record whose       *)
(* kurdish_date is the converter's result passes the offline check.        *)
(***************************************************************************)
C26_ConverterOutputValid ==
    op = "validate_converted" => valid

(***************************************************************************)
(* C27.  Validation does not depend on how the month is written: for every *)
(* year, every day and every index i in 1 .. 12,                           *)
(* is_valid_kurdish_date(year, i, day) equals                              *)
(* is_valid_kurdish_date(year, name of month i, day).                      *)
(***************************************************************************)
C27_SpellingIndependent ==
    (/\ op = "is_valid_kurdish_date"
     /\ ~kin.month.isStr
     /\ kin.month.num \in 1 .. 12)
        => valid = is_valid_kurdish_date(
                       kin.year, ByName(KURDISH_MONTHS[kin.month.num]),
                       kin.day)

(***************************************************************************)
(* C28.  Deduplication never hides a match: if some loaded source record   *)
(* lies in the requested range and satisfies every predicate filter of the *)
(* query (region, type and is_holiday), then the result contains a record  *)
(* with that same (date, type, region) key, also when another record with  *)
(* the same key but a different isHoliday value was loaded earlier (range  *)
(* query and filtered list).                                               *)
(***************************************************************************)
\* the well-formed records the query read from its sources
C28_Loaded ==
    {h \in Elems(LoadedRecords(<<2023, 2024>>)) :
        Has(h, "date") /\ Has(h, "event")}

C28_Matches(h) ==
    LET d == ParseIso(h["date"])
    IN  /\ (request.from_date # "" => DateLE(ParseIso(request.from_date), d))
        /\ (request.to_date # "" => DateLE(d, ParseIso(request.to_date)))
        /\ (request.month # 0 => d[2] = request.month)
        /\ (request.day # 0 => d[3] = request.day)
        /\ (request.region # {}
               => Has(h, "region")
                  /\ \E r \in request.region :
                         C9_StoredMatches(h["region"], r))
        /\ (request.type # {} => Has(h, "type") /\ h["type"] \in request.type)
        /\ (request.is_holiday # {}
               => Has(h, "isHoliday")
                  /\ h["isHoliday"] \in request.is_holiday)

C28_MatchNeverHidden ==
    (op \in {"get_holidays_by_date_range", "get_holidays"}
     /\ response.error = "")
        => \A h \in C28_Loaded :
               C28_Matches(h)
                   => \E g \in C28_Loaded :
                          /\ UniqueKey(g) = UniqueKey(h)
                          /\ \E i \in 1 .. Len(response.items) :
                                 response.items[i] = Entry(g, request.lang)

(***************************************************************************)
(* C29.  Skipping a malformed record leaves the rest of the result         *)
(* unchanged: the result of a query over sources that contain records      *)
(* without an event field equals the result of the same query over the     *)
(* same sources with those records removed; a malformed record never       *)
(* causes a well-formed record with the same (date, type, region) key to   *)
(* be dropped.                                                             *)
(***************************************************************************)
C29_WithEvent(hs) ==
    LET Keep(h) == Has(h, "event")
    IN  SelectSeq(hs, Keep)

\* the answer of the query that ran, over the sources without the records
\* that have no event
C29_CleanAnswer ==
    LET files == [y \in FileYears |-> C29_WithEvent(yearFiles[y])]
        hist  == C29_WithEvent(historical)
    IN  CASE op = "get_holidays_by_date_range"
               -> get_holidays_by_date_range(files, hist, request).response
          [] op = "get_holidays_by_date"
               -> get_holidays_by_date(files, hist, request).response
          [] op = "get_today_holidays"
               -> get_today_holidays(files, hist, request).response

C29_MalformedNeverShadows ==
    op \in {"get_holidays_by_date_range", "get_holidays_by_date",
            "get_today_holidays"}
        => response = C29_CleanAnswer

(***************************************************************************)
(* C30.  Fix then check: after update_kurdish_dates has run without        *)
(* dry_run on a file in which every record has a parseable date,           *)
(* validate_file on the rewritten file reports success with no errors, for *)
(* records dated in any Kurdish month; and with dry_run set the file       *)
(* content is left unchanged.                                              *)
(***************************************************************************)
C30_AllDatesParse(file) ==
    \A i \in 1 .. Len(file) :
        Has(file[i], "date") /\ FromIsoFormat(file[i]["date"]) # NoDate

C30_FixThenCheck ==
    /\ (op = "update_then_validate" /\ ~report.dry_run
        /\ C30_AllDatesParse(dataFile))
           => (report.success /\ report.messages = <<>>)
    /\ (op = "update_kurdish_dates" /\ report.dry_run)
           => dataFile = report.read

====
